---- MODULE Spec2Model ----
(***************************************************************************)
(* EC2 sandbox broker: the Strands tool bundle (strands_tools.py), the     *)
(* task execution of SandboxInstance.execute_code (sandbox.py), the task   *)
(* filesystem and the remote shell adapter of EC2SandboxEnv (core.py), the *)
(* session registry (session_manager.py) and the safety helpers (utils.py).*)
(*                                                                         *)
(* Strings of the program are modelled by their structure:                 *)
(*   - a directory path is a sequence of path segments;                    *)
(*   - a task hash is the record of the fields that generate_task_hash     *)
(*     digests (the hour bucket is the same over the runs modelled here);  *)
(*   - the remote standard output is a sequence of lines, each a record    *)
(*     that keeps what the parser of execute_code looks at.                *)
(***************************************************************************)
EXTENDS Integers, Sequences, FiniteSets, TLC

VARIABLES
    sessions,        \* SessionManager.sessions: session id -> task_count
    nextSid,         \* how many session ids generate_session_id has produced
    currentContext,  \* strands_tools._current_context (module global)
    bundles,         \* tool bundles returned by create_strands_tools, in order
    baseDir,         \* sandbox_env.config.base_sandbox_dir
    gpu,             \* whether the environment's instance is a GPU instance
    fsDirs,          \* task directories existing on the instance
    fsFiles,         \* files existing on the instance
    pc,              \* per caller thread: position in the invocation
    call,            \* per caller thread: locals of the invocation
    started,         \* number of invocations started so far
    clock,           \* time.time(), in ticks
    mtime,           \* modification time of each directory on the instance
    sweep,           \* the caller of cleanup_expired_tasks: position and locals
    worker,          \* per session worker thread: position and locals
    sessionLock,     \* SessionData.lock of each session that is held: its holder
    updates,         \* per session: update_activity calls completed since creation or reset
    ops,             \* number of session operations begun so far
    envInstances,    \* EC2SandboxEnv._instances[key]: the object stored, 0 for none
    envObjects,      \* the EC2SandboxEnv objects created, in order
    timers,          \* the threading.Timer objects created, in order
    builder,         \* per thread that constructs EC2SandboxEnv: position and locals
    stopper,         \* the caller of stop_cleanup_timer
    provisioned,     \* number of times _ensure_base_directory has run
    builds,          \* number of constructions begun so far
    user_agents,     \* SandboxDemo.user_agents: session id -> Agent
    agents,          \* the Agent objects constructed, in order
    session_environments,  \* SandboxDemo.session_environments: session id -> name
    ui,              \* per thread of the web UI: position and locals
    switched,        \* the last switch_environment call, until its caller has the response
    uiCalls,         \* number of web UI calls begun so far
    toolCall,        \* the last call of a tool that reads, until its caller has the response
    sanitized,       \* the caller of sanitize_env_var: position and locals
    applied          \* the caller of another pure function: the function, its argument, its result

\* the state of the tool bundles, the invocations and the instance
toolVars == <<sessions, nextSid, currentContext, bundles, baseDir, gpu,
              fsDirs, fsFiles, pc, call, started, mtime>>

\* the state that the steps of an invocation never write
\* the state of the threads that work on the session registry
sessVars == <<worker, sessionLock, updates, ops>>

\* the state of the environment objects and their timers
envVars == <<envInstances, envObjects, timers, builder, stopper, provisioned, builds>>

\* the state of the web UI
uiVars == <<user_agents, agents, session_environments, ui, switched, uiCalls>>

\* the state of the calls of the other tools of a bundle
auxVars == <<toolCall, sanitized, applied>>

restVars == <<clock, sweep, sessVars, envVars, uiVars, auxVars>>

vars == <<toolVars, restVars>>

----------------------------------------------------------------------------
(* Bounds of the model *)

MaxCalls == 2        \* invocations started where invocations overlap
MaxExecCalls == 1    \* invocations started where one caller sends every request
MaxBundles == 2      \* tool bundles created
MaxSessions == 2     \* session ids generated
MaxClock == 3        \* ticks of the clock
TicksPerHour == 2    \* ticks in one hour
CleanupAfterHours == 1   \* config.cleanup_after_hours of the environment
MaxOps == 3          \* session operations begun
MaxBuilds == 3       \* constructions of EC2SandboxEnv begun
MaxTimers == 3       \* timers after which no timer fires
MaxUiCalls == 3      \* web UI calls begun
MaxMessages == 2     \* messages kept in the history of an Agent
MaxValueLen == 3     \* characters of an environment variable value
MaxNameLen == 3      \* characters of a file name given to is_safe_filename

(* Program constants *)

MAX_CODE_SIZE == 71680

----------------------------------------------------------------------------
(* Values *)

None == "<None>"

Threads == {"t1", "t2"}

\* threads that construct EC2SandboxEnv with the same instance id and region
Builders == {"b1", "b2"}

\* threads that serve requests of the web UI
UiThreads == {"u1", "u2"}

\* the environments of the configuration file, and the one used by default
EnvNames == {"sandbox-default", "sandbox-gpu"}

DefaultEnv == "sandbox-default"

\* the environment names a user can ask for
UiEnvRequests == EnvNames \cup {"sandbox-none"}

\* threads that call the session registry directly
Workers == {"w1", "w2"}

\* SandboxConfig.base_sandbox_dir as configured: /opt/sandbox
ConfiguredBase == <<"opt", "sandbox">>

\* SandboxConfig.__post_init__: the default allow-list
allowed_runtimes == {"python3", "python", "node", "bash", "sh"}

\* Session ids a caller may pass that the registry never generated
CallerIds == {"alice", "bob"}

\* generate_session_id: sid_<timestamp>_<random>; the n-th id generated
GenIdPool == <<"sid_1", "sid_2", "sid_3", "sid_4", "sid_5">>

generate_session_id(n) == GenIdPool[n]

NoHash == [code |-> "", runtime |-> "", task_id |-> "", timestamp |-> 0]

\* working_directory == "": no directory
NoDir == [parent |-> <<>>, hash |-> NoHash]

\* The directory an SSM command starts in when no `cd` precedes it
SsmDefaultDir == [parent |-> <<"usr", "bin">>, hash |-> NoHash]

----------------------------------------------------------------------------
(* utils.py: safety helpers.  Names and values are sequences of characters. *)

LowerLetters == <<"a","b","c","d","e","f","g","h","i","j","k","l","m",
                  "n","o","p","q","r","s","t","u","v","w","x","y","z">>
UpperLetters == <<"A","B","C","D","E","F","G","H","I","J","K","L","M",
                  "N","O","P","Q","R","S","T","U","V","W","X","Y","Z">>
Digits == {"0","1","2","3","4","5","6","7","8","9"}

\* the character U+0060, which a TLA+ string cannot hold
Backtick == "<backtick>"

Range(f) == {f[i] : i \in DOMAIN f}

Letters == Range(LowerLetters) \cup Range(UpperLetters)

\* str.upper() on one character
UpperChar(c) ==
    IF c \in Range(LowerLetters)
    THEN UpperLetters[CHOOSE i \in DOMAIN LowerLetters : LowerLetters[i] = c]
    ELSE c

Upper(s) == [i \in DOMAIN s |-> UpperChar(s[i])]

\* s[i..] starts with the characters of pre
StartsWithAt(s, i, pre) ==
    /\ i + Len(pre) - 1 <= Len(s)
    /\ \A k \in 1..Len(pre) : s[i + k - 1] = pre[k]

\* re.search of a literal
Contains(s, lit) == \E i \in 1..Len(s) : StartsWithAt(s, i, lit)

\* str.split('.')[0]
BeforeFirstDot(s) ==
    IF \E i \in 1..Len(s) : s[i] = "."
    THEN SubSeq(s, 1, (CHOOSE i \in 1..Len(s) :
                          /\ s[i] = "."
                          /\ \A j \in 1..(i - 1) : s[j] # ".") - 1)
    ELSE s

ShellSpecialChars == {"|", "&", ";", "$", Backtick, "<", ">"}
ControlChars == {"\n", "\t", "\r"}

reserved_names ==
    {<<"C","O","N">>, <<"P","R","N">>, <<"A","U","X">>, <<"N","U","L">>}
    \cup {<<"C","O","M",d>> : d \in Digits \ {"0"}}
    \cup {<<"L","P","T",d>> : d \in Digits \ {"0"}}

FilenameChars == Letters \cup Digits \cup {".", "_", "-"}

MaxFilenameLen == 255

is_safe_filename(filename) ==
    /\ ~ (Len(filename) > MaxFilenameLen)
    /\ ~ Contains(filename, <<".", ".", "/">>)
    /\ ~ Contains(filename, <<".", ".", "\\">>)
    /\ ~ StartsWithAt(filename, 1, <<"/">>)
    /\ ~ StartsWithAt(filename, 1, <<"\\">>)
    /\ ~ \E i \in 1..Len(filename) : filename[i] \in ShellSpecialChars
    /\ ~ \E i \in 1..Len(filename) : filename[i] \in ControlChars
    /\ BeforeFirstDot(Upper(filename)) \notin reserved_names
    /\ Len(filename) >= 1
    /\ \A i \in 1..Len(filename) : filename[i] \in FilenameChars

\* ^[A-Za-z_][A-Za-z0-9_]*$
ValidEnvName(key) ==
    /\ Len(key) >= 1
    /\ key[1] \in Letters \cup {"_"}
    /\ \A i \in 2..Len(key) : key[i] \in Letters \cup Digits \cup {"_"}

\* the order in which sanitize_env_var walks the dangerous characters
dangerous_chars == <<Backtick, "$", "\\", "\"", "'", ";", "&", "|", "<", ">">>

\* str.replace(char, '\\' + char)
RECURSIVE Replace(_, _)
Replace(value, char) ==
    IF value = <<>> THEN <<>>
    ELSE IF Head(value) = char
         THEN <<"\\", char>> \o Replace(Tail(value), char)
         ELSE <<Head(value)>> \o Replace(Tail(value), char)

RECURSIVE EscapeFrom(_, _)
EscapeFrom(value, k) ==
    IF k > Len(dangerous_chars) THEN value
    ELSE EscapeFrom(Replace(value, dangerous_chars[k]), k + 1)

\* [raised |-> TRUE] stands for the ValueError
sanitize_env_var(key, value) ==
    IF ~ ValidEnvName(key)
    THEN [raised |-> TRUE, key |-> key, value |-> value]
    ELSE [raised |-> FALSE, key |-> key, value |-> EscapeFrom(value, 1)]

\* the caller of a pure function before a call
NoApplied == [fn |-> "", arg |-> 0, out |-> 0]

\* the caller of sanitize_env_var before a call
NoSanitize ==
    [pc |-> "idle", key |-> <<>>, value |-> <<>>,
     once |-> sanitize_env_var(<<>>, <<>>), twice |-> sanitize_env_var(<<>>, <<>>)]

\* the names and the values given to sanitize_env_var: a valid name and an
\* invalid one, values of harmless and dangerous characters
EnvKeys == {<<"A", "_", "1">>, <<"1", "B">>}
ValueChars == {"x", "$", "\\", "'"}
EnvValues == UNION {[1..n -> ValueChars] : n \in 0..MaxValueLen}

\* sha256 of the canonical JSON of the digested fields, taken as injective;
\* the timestamp is the hour: int(time.time() // 3600)
generate_task_hash(code, runtime, task_id) ==
    [code |-> code, runtime |-> runtime, task_id |-> task_id,
     timestamp |-> clock \div TicksPerHour]

----------------------------------------------------------------------------
(* The remote shell.  A command line is a sequence of simple commands,     *)
(* each with the connector that precedes it: "" for the first, "&&", "||"  *)
(* or ";".  Standard output is a sequence of lines.                        *)

Line(k, ok, n, entries) == [k |-> k, ok |-> ok, n |-> n, entries |-> entries]

StartMarker == Line("start", FALSE, 0, {})    \* === EXECUTION START ===
EndMarker == Line("end", FALSE, 0, {})        \* === EXECUTION END ===
FilesMarker == Line("files", FALSE, 0, {})    \* --- FILES_CREATED ---
ExitCodeLine(n) == Line("exit", TRUE, n, {})  \* EXIT_CODE: <n>
ExitCodeJunk == Line("exit", FALSE, 0, {})    \* EXIT_CODE: <not an integer>
TextLine == Line("text", FALSE, 0, {})        \* any other line
LsBlock(entries) == Line("ls", FALSE, 0, entries)  \* the output of ls -la

Cmd(conn, op, arg) == [conn |-> conn, op |-> op, arg |-> arg]

\* " && ".join(commands): each element of the list is itself a short
\* command line; the first command of every element but the first gets &&
RECURSIVE JoinAnd(_)
JoinAnd(elements) ==
    IF elements = <<>> THEN <<>>
    ELSE LET rest == JoinAnd(Tail(elements))
         IN  Head(elements)
             \o (IF rest = <<>> THEN <<>>
                 ELSE <<[rest[1] EXCEPT !.conn = "&&"]>> \o Tail(rest))

\* one entry of ls -la: the "d" or "-" its line starts with, and the name
LsEntry(type, name, hash) == [type |-> type, name |-> name, hash |-> hash]

LsOutput(cwd, files) ==
    {LsEntry("d", <<".">>, NoHash), LsEntry("d", <<".", ".">>, NoHash)}
    \cup {LsEntry("-", f.name, f.hash) : f \in {g \in files : g.dir = cwd}}

File(dir, name, hash) == [dir |-> dir, name |-> name, hash |-> hash]

\* the name task_<hash>.<ext> of the code file
CodeFileName(ext) == <<"t", "a", "s", "k", "_", "#", ".">> \o ext

\* whether the submitted program has run, and the code it exited with
NotRun == [set |-> FALSE, n |-> 0]

ShellStart(dirs, files) ==
    [st |-> 0, rcvar |-> [set |-> FALSE, n |-> 0], out |-> <<>>, cwd |-> SsmDefaultDir,
     dirs |-> dirs, files |-> files, exited |-> FALSE, ran |-> NotRun]

\* whether the shell runs a command, given the connector before it
Runs(sh, conn) ==
    /\ ~ sh.exited
    /\ \/ conn \in {"", ";"}
       \/ conn = "&&" /\ sh.st = 0
       \/ conn = "||" /\ sh.st # 0

\* the effect of one simple command; prog is what the submitted program does
RunCmd(sh, c, prog) ==
    CASE c.op = "mkdir" -> [sh EXCEPT !.st = 0, !.dirs = @ \cup {c.arg}]
      [] c.op = "cd" ->
            IF c.arg \in sh.dirs THEN [sh EXCEPT !.st = 0, !.cwd = c.arg]
            ELSE [sh EXCEPT !.st = 1]
      [] c.op = "seed" ->
            [sh EXCEPT !.st = 0,
                       !.files = @ \cup {File(sh.cwd, c.arg, NoHash)}]
      [] c.op = "write_code" ->
            [sh EXCEPT !.st = 0,
                       !.files = @ \cup {File(sh.cwd, c.arg.name, c.arg.hash)}]
      [] c.op = "echo" -> [sh EXCEPT !.st = 0, !.out = Append(@, c.arg)]
      [] c.op = "run" -> [sh EXCEPT !.st = prog.rc, !.out = @ \o prog.out,
                                   !.ran = [set |-> TRUE, n |-> prog.rc]]
      [] c.op = "save_rc" -> [sh EXCEPT !.st = 0, !.rcvar = [set |-> TRUE, n |-> sh.st]]
      [] c.op = "echo_rc" ->
            [sh EXCEPT !.st = 0,
                       !.out = Append(@, IF sh.rcvar.set
                                         THEN ExitCodeLine(sh.rcvar.n)
                                         ELSE ExitCodeJunk)]
      [] c.op = "ls" ->
            [sh EXCEPT !.st = 0,
                       !.out = Append(@, LsBlock(LsOutput(sh.cwd, sh.files)))]
      [] c.op = "exit" -> [sh EXCEPT !.st = 0, !.exited = TRUE]
      [] OTHER -> [sh EXCEPT !.st = 0]   \* export, ulimit, set +e, chmod, true

RECURSIVE RunShell(_, _, _, _)
RunShell(sh, cmds, i, prog) ==
    IF i > Len(cmds) THEN sh
    ELSE RunShell(IF Runs(sh, cmds[i].conn) THEN RunCmd(sh, cmds[i], prog) ELSE sh,
                  cmds, i + 1, prog)

----------------------------------------------------------------------------
(* core.py: EC2SandboxEnv *)

\* what the submitted program does when it runs: its exit code and output
ProgramExitCodes == {0, 3}
ProgramOutputs == {<<>>, <<TextLine>>, <<ExitCodeLine(0)>>, <<ExitCodeJunk>>}
ProgramErrors == {"", "text"}    \* standard error: empty or not
Programs == [rc : ProgramExitCodes, out : ProgramOutputs, err : ProgramErrors]

\* What the management channel does with a command: "ok" runs it and
\* returns its output; "unsent" raises before the command runs; "lost" runs
\* the command and raises while waiting for its result.
ChannelOutcomes == {"ok", "unsent", "lost"}

\* a program that prints nothing and exits 0
SilentProgram == [rc |-> 0, out |-> <<>>, err |-> ""]

\* What happens to one execution command: the channel's outcome and, when
\* the command's output comes back, what the program did
Outcomes(channel, programs) ==
    {[chan |-> "ok", prog |-> p] : p \in programs}
    \cup {[chan |-> c, prog |-> SilentProgram] : c \in channel \ {"ok"}}

\* _execute_remote_command: the dict returned and the instance's filesystem
\* after it
_execute_remote_command(command, working_dir, chan, prog, dirs, files) ==
    LET full == IF working_dir # NoDir
                THEN JoinAnd(<<<<Cmd("", "cd", working_dir)>>, command>>)
                ELSE command
        sh == RunShell(ShellStart(dirs, files), full, 1, prog)
    IN  CASE chan = "ok" ->
                [stdout |-> sh.out, stderr |-> prog.err,
                 status |-> IF sh.st = 0 THEN "Success" ELSE "Failed",
                 return_code |-> sh.st, dirs |-> sh.dirs, files |-> sh.files,
                 ran |-> sh.ran]
          [] chan = "lost" ->
                [stdout |-> <<>>, stderr |-> "text", status |-> "Failed", return_code |-> 1,
                 dirs |-> sh.dirs, files |-> sh.files, ran |-> sh.ran]
          [] OTHER ->
                [stdout |-> <<>>, stderr |-> "text", status |-> "Failed", return_code |-> 1,
                 dirs |-> dirs, files |-> files, ran |-> NotRun]

TaskDir(base, task_hash) == [parent |-> base, hash |-> task_hash]

\* a directory that holds task directories: the directory at path itself
DirNode(path) == [parent |-> path, hash |-> NoHash]

\* The modification times after a command turned the directories d0 into d1
\* and the files f0 into f1: a directory is modified when an entry is
\* created in it, and mkdir -p creates the missing parent too
Touch(mt, d0, d1, f0, f1, now) ==
    LET created == d1 \ d0
        touched == created \cup {DirNode(d.parent) : d \in created}
                   \cup {f.dir : f \in {g \in f1 \ f0 : g.dir \in d1}}
    IN  [d \in (DOMAIN mt) \cup touched |-> IF d \in touched THEN now ELSE mt[d]]

\* the files dict of a request is the set of its names (Python: None or {}
\* is falsy)
SeedCommands(files) ==
    LET RECURSIVE Each(_)
        Each(S) == IF S = {} THEN <<>>
                   ELSE LET f == CHOOSE x \in S : TRUE
                        IN  <<<<Cmd("", "seed", f)>>>> \o Each(S \ {f})
    IN  Each(files)

\* _create_task_filesystem if it did not look at the return code of its
\* command
_create_task_filesystem_Unchecked(base, task_hash, files, chan, dirs, fls) ==
    LET task_dir == TaskDir(base, task_hash)
        commands == <<<<Cmd("", "mkdir", task_dir)>>, <<Cmd("", "chmod", task_dir)>>,
                      <<Cmd("", "cd", task_dir)>>>> \o SeedCommands(files)
        result == _execute_remote_command(JoinAnd(commands), NoDir, chan,
                                          SilentProgram, dirs, fls)
    IN  IF \E f \in files : ~ is_safe_filename(f)
        THEN [raised |-> TRUE, sent |-> FALSE, task_dir |-> NoDir, return_code |-> 0,
              dirs |-> dirs, files |-> fls]
        ELSE [raised |-> FALSE, sent |-> TRUE, task_dir |-> task_dir,
              return_code |-> result.return_code,
              dirs |-> result.dirs, files |-> result.files]

\* _create_task_filesystem: [raised] for ValueError / RuntimeError,
\* [sent] whether the provisioning command was dispatched, [return_code]
\* the code that the command returned
_create_task_filesystem(base, task_hash, files, chan, dirs, fls) ==
    LET task_dir == TaskDir(base, task_hash)
        commands == <<<<Cmd("", "mkdir", task_dir)>>, <<Cmd("", "chmod", task_dir)>>,
                      <<Cmd("", "cd", task_dir)>>>> \o SeedCommands(files)
        result == _execute_remote_command(JoinAnd(commands), NoDir, chan,
                                          SilentProgram, dirs, fls)
    IN  IF \E f \in files : ~ is_safe_filename(f)
        THEN [raised |-> TRUE, sent |-> FALSE, task_dir |-> NoDir, return_code |-> 0,
              dirs |-> dirs, files |-> fls]
        ELSE [raised |-> result.return_code # 0, sent |-> TRUE,
              task_dir |-> IF result.return_code # 0 THEN NoDir ELSE task_dir,
              return_code |-> result.return_code,
              dirs |-> result.dirs, files |-> result.files]

\* The directories that find <base> -maxdepth 1 -type d -mmin +<minutes>
\* ! -path <base> selects: directories directly in base, last modified more
\* than the given time ago
FindOld(base, mt, now, ticks) ==
    {d \in DOMAIN mt :
        /\ \/ d.hash # NoHash /\ d.parent = base
           \/ d.hash = NoHash /\ d.parent # <<>> /\ SubSeq(d.parent, 1, Len(d.parent) - 1) = base
        /\ now - mt[d] > ticks}

\* whether rm -rf of the directories in roots removes directory d
Removed(d, roots) == d \in roots \/ (d.hash # NoHash /\ DirNode(d.parent) \in roots)

\* cleanup_old_tasks(hours): the instance after the find ... -exec rm -rf
\* command; an exception of the channel is logged and nothing is removed
cleanup_old_tasks(hours, chan, base, dirs, files, mt, now) ==
    LET cleanup_hours == IF hours = 0 THEN CleanupAfterHours ELSE hours
        roots == FindOld(base, mt, now, cleanup_hours * TicksPerHour)
    IN  IF chan = "ok"
        THEN [dirs |-> {d \in dirs : ~ Removed(d, roots)},
              files |-> {f \in files : ~ Removed(f.dir, roots)},
              mtime |-> [d \in {e \in DOMAIN mt : ~ Removed(e, roots)} |-> mt[d]]]
        ELSE [dirs |-> dirs, files |-> files, mtime |-> mt]

\* _is_gpu_environment
_is_gpu_environment == gpu

\* get_gpu_env_vars: variables such as CUDA_HOME
get_gpu_env_vars ==
    {[key |-> <<"C","U","D","A","_","H","O","M","E">>, value |-> <<"/", "c">>]}

----------------------------------------------------------------------------
(* sandbox.py: ExecutionResult and SandboxInstance.execute_code *)

\* stderr and error_message keep whether they are None, empty or not
ExecutionResult(success, stdout, stderr, return_code, working_directory, files_created, task_hash, error_message, session_id, task_count) ==
    [success |-> success, stdout |-> stdout, stderr |-> stderr,
     return_code |-> return_code, working_directory |-> working_directory,
     files_created |-> files_created, task_hash |-> task_hash,
     error_message |-> error_message, session_id |-> session_id,
     task_count |-> task_count]

NoCount == -1    \* task_count = None

NoResult == ExecutionResult(FALSE, <<>>, "", 0, NoDir, {}, NoHash, None, None, NoCount)

\* sandbox.py 62-72: the runtime is not allowed
InvalidRuntimeResult ==
    ExecutionResult(FALSE, <<>>, "text", 1, NoDir, {}, NoHash, "text", None, NoCount)

\* sandbox.py 217-231: the except branch
ExceptionResult(task_hash) ==
    ExecutionResult(FALSE, <<>>, "text", 1, NoDir, {}, task_hash, "text", None, NoCount)

\* {**gpu_env_vars, **final_env_vars}: the user's variables win
MergeEnv(gpu_vars, user_vars) ==
    user_vars \cup {g \in gpu_vars : \A u \in user_vars : u.key # g.key}

final_env_vars(env_vars) ==
    IF _is_gpu_environment THEN MergeEnv(get_gpu_env_vars, env_vars) ELSE env_vars

ExportCommands(env) ==
    LET RECURSIVE Each(_)
        Each(S) == IF S = {} THEN <<>>
                   ELSE LET v == CHOOSE x \in S : TRUE
                        IN  <<<<Cmd("", "export", sanitize_env_var(v.key, v.value))>>>>
                            \o Each(S \ {v})
    IN  Each(env)

resource_limits ==
    <<<<Cmd("", "ulimit", "t")>>, <<Cmd("", "ulimit", "v")>>,
      <<Cmd("", "ulimit", "f")>>, <<Cmd("", "ulimit", "n")>>>>

CodeFile(ext, task_hash) == [name |-> CodeFileName(ext), hash |-> task_hash]

\* sandbox.py 113-158: the commands that run the code, per runtime
RuntimeCommands(runtime, task_hash) ==
    CASE runtime = "python" ->
            <<<<Cmd("", "set+e", "")>>,
              <<Cmd("", "write_code", CodeFile(<<"p", "y">>, task_hash))>>,
              <<Cmd("", "echo", StartMarker)>>,
              <<Cmd("", "run", runtime), Cmd(";", "save_rc", "")>>,
              <<Cmd("", "echo", EndMarker)>>,
              <<Cmd("", "echo_rc", "")>>,
              <<Cmd("", "echo", FilesMarker)>>,
              <<Cmd("", "ls", ""), Cmd("||", "true", "")>>>>
      [] runtime = "node" ->
            <<<<Cmd("", "set+e", "")>>,
              <<Cmd("", "write_code", CodeFile(<<"j", "s">>, task_hash))>>,
              <<Cmd("", "echo", StartMarker)>>,
              <<Cmd("", "run", runtime)>>,
              <<Cmd("", "save_rc", "")>>,
              <<Cmd("", "echo", EndMarker)>>,
              <<Cmd("", "echo_rc", "")>>,
              <<Cmd("", "echo", FilesMarker)>>,
              <<Cmd("", "ls", ""), Cmd("||", "true", "")>>,
              <<Cmd("", "exit", "")>>>>
      [] runtime \in {"bash", "sh"} ->
            <<<<Cmd("", "run", runtime)>>>>
      [] OTHER -> <<>>

\* sandbox.py 88-165: full_command
ExecCommand(runtime, task_hash, env_vars) ==
    JoinAnd(ExportCommands(final_env_vars(env_vars))
            \o resource_limits
            \o RuntimeCommands(runtime, task_hash)
            \o <<<<Cmd("", "echo", FilesMarker)>>, <<Cmd("", "ls", "")>>>>)

Min(S) == CHOOSE x \in S : \A y \in S : x <= y
Max(S) == CHOOSE x \in S : \A y \in S : x >= y

Where(out, k) == {i \in DOMAIN out : out[i].k = k}

\* the parse with actual_success left at its initial True
ParseExitCode_KeepsSuccess(stdout) ==
    IF Where(stdout, "exit") = {}
    THEN [actual_success |-> TRUE, actual_return_code |-> 0]
    ELSE LET first == stdout[Min(Where(stdout, "exit"))]
         IN  IF first.ok
             THEN [actual_success |-> TRUE, actual_return_code |-> first.n]
             ELSE [actual_success |-> TRUE, actual_return_code |-> 0]

\* sandbox.py 172-186: the exit code read from the first EXIT_CODE: line
ParseExitCode(stdout) ==
    IF Where(stdout, "exit") = {}
    THEN [actual_success |-> TRUE, actual_return_code |-> 0]
    ELSE LET first == stdout[Min(Where(stdout, "exit"))]
         IN  IF first.ok
             THEN [actual_success |-> (first.n = 0), actual_return_code |-> first.n]
             ELSE [actual_success |-> TRUE, actual_return_code |-> 0]

\* sandbox.py 188-195: the output between the markers
ExecutionOutput(stdout) ==
    IF Where(stdout, "start") # {} /\ Where(stdout, "end") # {}
    THEN SubSeq(stdout, Min(Where(stdout, "start")) + 1, Min(Where(stdout, "end")) - 1)
    ELSE stdout

\* utils.parse_file_list on the section after the last FILES_CREATED marker
parse_file_list(section) ==
    {[name |-> e.name, hash |-> e.hash] :
        e \in {x \in UNION {section[i].entries : i \in Where(section, "ls")} :
                  /\ x.type \in {"-", "d"}
                  /\ x.name \notin {<<".">>, <<".", ".">>}}}

FilesCreated(stdout) ==
    IF Where(stdout, "files") # {}
    THEN parse_file_list(SubSeq(stdout, Max(Where(stdout, "files")) + 1, Len(stdout)))
    ELSE {}

\* sandbox.py 168-215: the result parsed from the adapter's dict
ParsedResult(remote, working_dir, task_hash) ==
    LET p == ParseExitCode(remote.stdout)
        execution_output == ExecutionOutput(remote.stdout)
    IN  ExecutionResult(p.actual_success, execution_output, remote.stderr,
                        p.actual_return_code, working_dir,
                        FilesCreated(remote.stdout), task_hash,
                        IF ~ p.actual_success
                        THEN (IF execution_output = <<>> THEN "" ELSE "text")
                        ELSE None,
                        None, NoCount)

----------------------------------------------------------------------------
(* Requests *)

\* code_size = len(code.encode('utf-8')) of the codes submitted
code_size(code) ==
    CASE code = "c_limit" -> MAX_CODE_SIZE
      [] code = "c_over" -> MAX_CODE_SIZE + 1
      [] OTHER -> MAX_CODE_SIZE - 1

Codes == {"c_under", "c_limit", "c_over"}

Runtimes == allowed_runtimes \cup {"ruby"}

SafeName == <<"i", "n", ".", "t", "x", "t">>      \* in.txt
UnsafeName == <<".", ".", "/", "e", "s", "c">>    \* ../esc

FileMaps == {{}, {SafeName}, {SafeName, UnsafeName}}

GoodVar == [key |-> <<"A", "_", "1">>, value |-> <<"x", "$">>]
BadVar == [key |-> <<"1", "B">>, value |-> <<"x">>]

EnvMaps == {{}, {GoodVar}, {GoodVar, BadVar}}

TaskIds == {"job"}

\* f"task_{int(time.time())}" at each tick of the clock
DefaultTaskIds == <<"task_0", "task_1", "task_2", "task_3", "task_4">>

\* task_id or f"task_{int(time.time())}"
task_id_or_default(task_id) ==
    IF task_id = None THEN DefaultTaskIds[clock + 1] ELSE task_id

Request(code, runtime, task_id, files, env_vars, create_filesystem) ==
    [code |-> code, runtime |-> runtime, task_id |-> task_id, files |-> files,
     env_vars |-> env_vars, create_filesystem |-> create_filesystem]

NoRequest == Request("", "", "", {}, {}, FALSE)

\* every request to SandboxInstance.execute_code, which does not look at
\* the size of the code
ExecRequests ==
    {Request("c_under", r, t, f, e, b) :
        r \in Runtimes, t \in TaskIds, f \in FileMaps, e \in EnvMaps, b \in BOOLEAN}

\* requests to the tool that take each path through it: code at the size
\* limit and over it, runtimes allowed and not, names safe and not
PathRequests ==
    {Request("c_over", "python", "job", {}, {}, TRUE)}
    \cup {Request("c_limit", r, "job", {}, {}, b) :
             r \in {"python3", "node", "ruby"}, b \in BOOLEAN}
    \cup {Request("c_limit", "python", "job", f, e, TRUE) :
             f \in {{}, {SafeName, UnsafeName}}, e \in {{}, {GoodVar, BadVar}}}

\* the requests of the runs in which invocations overlap: code at the size
\* limit and over it, an allowed runtime and one that is not
ToolRequests ==
    {Request("c_limit", "python", "job", {}, {}, TRUE),
     Request("c_limit", "ruby", "job", {}, {}, TRUE),
     Request("c_over", "python", "job", {}, {}, TRUE)}

\* what the programs and the channel of those runs do
ToolChannelOutcomes == {"ok", "unsent"}
ToolPrograms == [rc : ProgramExitCodes, out : {<<>>}, err : {""}]

----------------------------------------------------------------------------
(* session_manager.py *)

Context(session_id, base) == [session_id |-> session_id, base |-> base]

NoContext == Context(None, <<>>)

\* SessionContext.session_path
session_path(ctx) == Append(ctx.base, ctx.session_id)

\* SessionData.update_activity on the entry of session_id
update_activity(reg, session_id) == [reg EXCEPT ![session_id] = @ + 1]

\* SessionManager.create_session: the registry with a new, generated id
create_session(reg, n) == reg @@ (generate_session_id(n + 1) :> 0)

\* SessionManager.get_or_create_session: the registry after it, and the id
\* of the SessionData returned
get_or_create_session(reg, n, session_id) ==
    IF session_id # None /\ session_id \in DOMAIN reg
    THEN [sessions |-> update_activity(reg, session_id), nextSid |-> n,
          session_id |-> session_id]
    ELSE [sessions |-> create_session(reg, n), nextSid |-> n + 1,
          session_id |-> generate_session_id(n + 1)]

----------------------------------------------------------------------------
(* State *)

NoCall ==
    [kind |-> "", bundle |-> 0, req |-> NoRequest, task_id |-> "", ctx |-> NoContext,
     original_base_dir |-> <<>>, task_hash |-> NoHash, working_dir |-> NoDir,
     result |-> NoResult, sent |-> 0, prov_code |-> 0, exec_chan |-> "", ran |-> NotRun,
     full_command |-> <<>>]

\* ToolResponse: the envelope of the tools other than the execution tool
ToolResponse(success, session_id, data, message, error_message) ==
    [success |-> success, session_id |-> session_id, data |-> data, message |-> message,
     error_message |-> error_message]

\* data = None
NoData == [kind |-> "none"]

\* ToolResponse.create_success
create_success(data, message, session_id) == ToolResponse(TRUE, session_id, data, message, None)

\* ToolResponse.create_error
create_error(error_message, session_id, data) ==
    ToolResponse(FALSE, session_id, data, None, error_message)

\* the caller of cleanup_expired_tasks before a call: [before] is the
\* instance as it was when the call was made
NoSweep ==
    [pc |-> "idle", hours |-> 0, chan |-> "",
     before |-> [dirs |-> {}, files |-> {}, mtime |-> <<>>],
     result |-> create_error("", None, NoData)]

\* a thread outside the constructor; [obj] is the object it got last
NoBuild == [pc |-> "idle", obj |-> 0]

\* the caller of stop_cleanup_timer before the call; afterwards [obj] is the
\* environment stopped and [ticks] the periodic cleanups begun until then
NoStop == [pc |-> "idle", obj |-> 0, ticks |-> 0]

\* a web UI thread between two requests
NoUi == [pc |-> "idle", sid |-> "", tools |-> 0, ret |-> 0]

\* no switch_environment call whose response is not yet taken
NoSwitch == [pc |-> "idle", env |-> "", sid |-> "", outcome |-> "", before |-> <<>>]

\* filename = None or ""
NoName == <<>>

\* a task_hash argument: text that names a directory relative to the session
\* directory, as the segments before a task hash and the task hash; both
\* empty for None or ""
HashArg(up, hash) == [up |-> up, hash |-> hash]

NoHashArg == HashArg(<<>>, NoHash)

\* no call of a reading tool whose response is not yet taken
NoToolCall ==
    [pc |-> "idle", tool |-> "", bundle |-> 0, filename |-> NoName, task_hash |-> NoHashArg,
     find_chan |-> "", read_chan |-> "", ctx |-> NoContext, searched |-> {}, read |-> {}, result |-> create_error("", None, NoData)]

\* a worker between two operations
NoWork == [pc |-> "idle", op |-> "", sid |-> "", tmp |-> 0]

Init ==
    /\ sessions = <<>>
    /\ nextSid = 0
    /\ currentContext = NoContext
    /\ bundles = <<>>
    /\ baseDir = ConfiguredBase
    /\ gpu \in BOOLEAN
    /\ fsDirs = {}
    /\ fsFiles = {}
    /\ pc = [t \in Threads |-> "idle"]
    /\ call = [t \in Threads |-> NoCall]
    /\ started = 0
    /\ clock = 0
    /\ mtime = <<>>
    /\ sweep = NoSweep
    /\ worker = [w \in Workers |-> NoWork]
    /\ sessionLock = <<>>
    /\ updates = <<>>
    /\ ops = 0
    /\ envInstances = 0
    /\ envObjects = <<>>
    /\ timers = <<>>
    /\ builder = [b \in Builders |-> NoBuild]
    /\ stopper = NoStop
    /\ provisioned = 0
    /\ builds = 0
    /\ user_agents = <<>>
    /\ agents = <<>>
    /\ session_environments = <<>>
    /\ ui = [u \in UiThreads |-> NoUi]
    /\ switched = NoSwitch
    /\ uiCalls = 0
    /\ toolCall = NoToolCall
    /\ sanitized = NoSanitize
    /\ applied = NoApplied

----------------------------------------------------------------------------
(* strands_tools.py: create_strands_tools *)

\* Session ids a caller passes: an id of its own or a registered id
SessionArgs == CallerIds \cup DOMAIN sessions

\* create_strands_tools(config, session_id): the environment is the
\* memoized one; a context is created from the base directory of the config
\* passed (an object loaded from the profile) and stored in the module global
CreateTools(session_id) ==
    /\ Len(bundles) < MaxBundles
    /\ (session_id = None \/ session_id \notin DOMAIN sessions) => nextSid < MaxSessions
    /\ LET got == get_or_create_session(sessions, nextSid, session_id)
           context == Context(got.session_id, ConfiguredBase)
       IN  /\ sessions' = got.sessions
           /\ nextSid' = got.nextSid
           /\ currentContext' = context
           /\ bundles' = Append(bundles, [requested |-> session_id,
                                          session_id |-> context.session_id])
    /\ UNCHANGED <<baseDir, gpu, fsDirs, fsFiles, pc, call, started>>
    /\ UNCHANGED <<mtime, restVars>>

----------------------------------------------------------------------------
(* strands_tools.py: execute_code_in_sandbox, step by step.  A thread can  *)
(* be preempted between any two steps that touch shared state and while it *)
(* waits for the remote channel.                                           *)

\* the size check with >= for >
CodeTooLong_AtLimit(code) == code_size(code) >= MAX_CODE_SIZE

\* strands_tools.py 70-74: code_size > MAX_CODE_SIZE
CodeTooLong(code) == code_size(code) > MAX_CODE_SIZE

\* strands_tools.py 74-100: the result for code that is too long
CodeTooLongResult ==
    ExecutionResult(FALSE, <<>>, "text", 1, NoDir, {}, NoHash, "text", "", NoCount)

\* strands_tools.py 103-108: {"success": False, "error": ...}, a dict with
\* no other key
NoContextResult ==
    ExecutionResult(FALSE, <<>>, "", 1, NoDir, {}, NoHash, None, None, NoCount)

\* strands_tools.py 68-113: size check, get_session_context,
\* create_sandbox_instance
Invoke(t, b, req) ==
    /\ pc[t] = "idle"
    /\ b \in 1..Len(bundles)
    /\ started' = started + 1
    /\ IF CodeTooLong(req.code)
       THEN /\ call' = [call EXCEPT ![t] = [NoCall EXCEPT !.kind = "tool", !.bundle = b,
                                             !.req = req, !.result = CodeTooLongResult]]
            /\ pc' = [pc EXCEPT ![t] = "done"]
       ELSE IF currentContext = NoContext
       THEN /\ call' = [call EXCEPT ![t] = [NoCall EXCEPT !.kind = "tool", !.bundle = b,
                                             !.req = req, !.result = NoContextResult]]
            /\ pc' = [pc EXCEPT ![t] = "done"]
       ELSE /\ call' = [call EXCEPT ![t] = [NoCall EXCEPT !.kind = "tool", !.bundle = b,
                                             !.req = req, !.ctx = currentContext,
                                             !.task_id = task_id_or_default(req.task_id)]]
            /\ pc' = [pc EXCEPT ![t] = "save"]
    /\ UNCHANGED <<sessions, nextSid, currentContext, bundles, baseDir, gpu,
                   fsDirs, fsFiles>>
    /\ UNCHANGED <<mtime, restVars>>

\* strands_tools.py 116: original_base_dir = sandbox_env.config.base_sandbox_dir
SaveBase(t) ==
    /\ pc[t] = "save"
    /\ call' = [call EXCEPT ![t].original_base_dir = baseDir]
    /\ pc' = [pc EXCEPT ![t] = "set"]
    /\ UNCHANGED <<sessions, nextSid, currentContext, bundles, baseDir, gpu,
                   fsDirs, fsFiles, started>>
    /\ UNCHANGED <<mtime, restVars>>

\* strands_tools.py 117: sandbox_env.config.base_sandbox_dir = ctx.session_path
SetBase(t) ==
    /\ pc[t] = "set"
    /\ baseDir' = session_path(call[t].ctx)
    /\ pc' = [pc EXCEPT ![t] = "prov"]
    /\ UNCHANGED <<sessions, nextSid, currentContext, bundles, gpu,
                   fsDirs, fsFiles, call, started>>
    /\ UNCHANGED <<mtime, restVars>>

\* A test or another caller uses SandboxInstance.execute_code directly
DirectCall(t, req) ==
    /\ pc[t] = "idle"
    /\ started' = started + 1
    /\ call' = [call EXCEPT ![t] = [NoCall EXCEPT !.kind = "direct", !.req = req,
                                          !.task_id = task_id_or_default(req.task_id)]]
    /\ pc' = [pc EXCEPT ![t] = "prov"]
    /\ UNCHANGED <<sessions, nextSid, currentContext, bundles, baseDir, gpu,
                   fsDirs, fsFiles>>
    /\ UNCHANGED <<mtime, restVars>>

\* where an invocation goes once execute_code has returned
AfterExecute(t) == IF call[t].kind = "tool" THEN "activity" ELSE "done"

\* the runtime check left out
RuntimeAllowed_Any(runtime) == TRUE

\* sandbox.py 60-61: runtime in allowed_runtimes
RuntimeAllowed(runtime) == runtime \in allowed_runtimes

\* sandbox.py 59-87: runtime check, task hash, task filesystem
Provision(t, chan) ==
    /\ pc[t] = "prov"
    /\ LET req == call[t].req
           task_hash == generate_task_hash(req.code, req.runtime, call[t].task_id)
           made == _create_task_filesystem(baseDir, task_hash, req.files, chan,
                                           fsDirs, fsFiles)
       IN  IF ~ RuntimeAllowed(req.runtime)
           THEN /\ call' = [call EXCEPT ![t].result = InvalidRuntimeResult]
                /\ pc' = [pc EXCEPT ![t] = AfterExecute(t)]
                /\ UNCHANGED <<fsDirs, fsFiles>>
           ELSE IF ~ req.create_filesystem
           THEN /\ call' = [call EXCEPT ![t].task_hash = task_hash]
                /\ pc' = [pc EXCEPT ![t] = "run"]
                /\ UNCHANGED <<fsDirs, fsFiles>>
           ELSE /\ fsDirs' = made.dirs
                /\ fsFiles' = made.files
                /\ IF made.raised
                   THEN /\ call' = [call EXCEPT ![t].task_hash = task_hash,
                                                ![t].sent = @ + (IF made.sent THEN 1 ELSE 0),
                                                ![t].prov_code = made.return_code,
                                                ![t].result = ExceptionResult(task_hash)]
                        /\ pc' = [pc EXCEPT ![t] = AfterExecute(t)]
                   ELSE /\ call' = [call EXCEPT ![t].task_hash = task_hash,
                                                ![t].sent = @ + 1,
                                                ![t].prov_code = made.return_code,
                                                ![t].working_dir = made.task_dir]
                        /\ pc' = [pc EXCEPT ![t] = "run"]
    /\ UNCHANGED <<sessions, nextSid, currentContext, bundles, baseDir, gpu, started>>
    /\ mtime' = Touch(mtime, fsDirs, fsDirs', fsFiles, fsFiles', clock)
    /\ UNCHANGED restVars

\* sandbox.py 88-231: environment variables, the execution command, the
\* remote call and the parse of its output
Run(t, chan, prog) ==
    /\ pc[t] = "run"
    /\ LET req == call[t].req
           task_hash == call[t].task_hash
           working_dir == call[t].working_dir
           remote == _execute_remote_command(
                         ExecCommand(req.runtime, task_hash, req.env_vars),
                         working_dir, chan, prog, fsDirs, fsFiles)
       IN  IF \E v \in final_env_vars(req.env_vars) : sanitize_env_var(v.key, v.value).raised
           THEN /\ call' = [call EXCEPT ![t].result = ExceptionResult(task_hash)]
                /\ UNCHANGED <<fsDirs, fsFiles>>
           ELSE /\ call' = [call EXCEPT ![t].result =
                                            ParsedResult(remote, working_dir, task_hash),
                                        ![t].sent = @ + 1,
                                        ![t].exec_chan = chan,
                                        ![t].full_command =
                                            ExecCommand(req.runtime, task_hash, req.env_vars),
                                        ![t].ran = remote.ran]
                /\ fsDirs' = remote.dirs
                /\ fsFiles' = remote.files
    /\ pc' = [pc EXCEPT ![t] = AfterExecute(t)]
    /\ UNCHANGED <<sessions, nextSid, currentContext, bundles, baseDir, gpu, started>>
    /\ mtime' = Touch(mtime, fsDirs, fsDirs', fsFiles, fsFiles', clock)
    /\ UNCHANGED restVars

\* strands_tools.py 129-134: the displayed working directory and
\* ctx.session_data.update_activity()
UpdateActivity(t) ==
    /\ pc[t] = "activity"
    /\ call' = [call EXCEPT ![t].result.working_directory =
                    IF @ # NoDir
                    THEN TaskDir(session_path(call[t].ctx), call[t].result.task_hash)
                    ELSE @]
    /\ sessions' = update_activity(sessions, call[t].ctx.session_id)
    /\ pc' = [pc EXCEPT ![t] = "restore"]
    /\ UNCHANGED <<nextSid, currentContext, bundles, baseDir, gpu, fsDirs, fsFiles,
                   started>>
    /\ UNCHANGED <<mtime, restVars>>

\* strands_tools.py 136-138: the finally clause
RestoreBase(t) ==
    /\ pc[t] = "restore"
    /\ baseDir' = call[t].original_base_dir
    /\ pc' = [pc EXCEPT ![t] = "respond"]
    /\ UNCHANGED <<sessions, nextSid, currentContext, bundles, gpu, fsDirs, fsFiles,
                   call, started>>
    /\ UNCHANGED <<mtime, restVars>>

\* the response if error_message were result.stderr alone, without the
\* fallback text
Response_NoFallback(result, ctx, reg) ==
    ExecutionResult(result.success, result.stdout, result.stderr, result.return_code,
                    result.working_directory, result.files_created, result.task_hash,
                    IF ~ result.success THEN result.stderr ELSE None,
                    ctx.session_id, reg[ctx.session_id])

\* strands_tools.py 140-156: the response with the session information
Response(result, ctx, reg) ==
    ExecutionResult(result.success, result.stdout, result.stderr, result.return_code,
                    result.working_directory, result.files_created, result.task_hash,
                    IF ~ result.success
                    THEN (IF result.stderr # "" THEN result.stderr ELSE "text")
                    ELSE None,
                    ctx.session_id, reg[ctx.session_id])

Respond(t) ==
    /\ pc[t] = "respond"
    /\ call' = [call EXCEPT ![t].result = Response(@, call[t].ctx, sessions)]
    /\ pc' = [pc EXCEPT ![t] = "done"]
    /\ UNCHANGED <<sessions, nextSid, currentContext, bundles, baseDir, gpu,
                   fsDirs, fsFiles, started>>
    /\ UNCHANGED <<mtime, restVars>>

\* the caller takes the result
Return(t) ==
    /\ pc[t] = "done"
    /\ call' = [call EXCEPT ![t] = NoCall]
    /\ pc' = [pc EXCEPT ![t] = "idle"]
    /\ UNCHANGED <<sessions, nextSid, currentContext, bundles, baseDir, gpu,
                   fsDirs, fsFiles, started>>
    /\ UNCHANGED <<mtime, restVars>>

\* strands_tools.py 313-338: cleanup_expired_tasks(hours); hours = 0 stands
\* for None, which `hours or ...` treats alike
CleanupExpiredTasks(hours, chan) ==
    /\ sweep.pc = "idle"
    /\ LET after == cleanup_old_tasks(hours, chan, baseDir, fsDirs, fsFiles, mtime, clock)
       IN  /\ fsDirs' = after.dirs
           /\ fsFiles' = after.files
           /\ mtime' = after.mtime
    /\ sweep' = [pc |-> "swept", chan |-> chan,
                 hours |-> IF hours = 0 THEN CleanupAfterHours ELSE hours,
                 before |-> [dirs |-> fsDirs, files |-> fsFiles, mtime |-> mtime],
                 result |-> create_success([kind |-> "hours", hours |-> hours], "text",
                                           currentContext.session_id)]
    /\ UNCHANGED <<sessions, nextSid, currentContext, bundles, baseDir, gpu, pc, call,
                   started, clock, sessVars, envVars, uiVars, auxVars>>

\* the caller takes the response
CleanupReturn ==
    /\ sweep.pc = "swept"
    /\ sweep' = NoSweep
    /\ UNCHANGED <<toolVars, clock, sessVars, envVars, uiVars, auxVars>>

----------------------------------------------------------------------------
(* session_manager.py, step by step: threads call the registry and the     *)
(* session data directly.  threading.Lock is not reentrant: acquire blocks *)
(* while the lock is held, whoever holds it.                               *)

\* the lock taken whether it is free or not
LockFree_Always(lk, session_id) == TRUE

\* threading.Lock.acquire returns once the lock is free
LockFree(lk, session_id) == session_id \notin DOMAIN lk

\* lk without the entry of session_id
Unlock(lk, session_id) == [x \in (DOMAIN lk) \ {session_id} |-> lk[x]]

\* SessionManager.create_session: a session with a generated id
CreateSession ==
    /\ nextSid < MaxSessions
    /\ sessions' = create_session(sessions, nextSid)
    /\ nextSid' = nextSid + 1
    /\ updates' = updates @@ (generate_session_id(nextSid + 1) :> 0)
    /\ UNCHANGED <<currentContext, bundles, baseDir, gpu, fsDirs, fsFiles, pc, call,
                   started, mtime, clock, sweep, worker, sessionLock, ops, envVars, uiVars,
                   auxVars>>

\* a thread calls session_data.update_activity()
BeginUpdate(w, session_id) ==
    /\ worker[w].pc = "idle"
    /\ session_id \in DOMAIN sessions
    /\ ops < MaxOps
    /\ ops' = ops + 1
    /\ worker' = [worker EXCEPT ![w] = [pc |-> "acquire", op |-> "update",
                                         sid |-> session_id, tmp |-> 0]]
    /\ UNCHANGED <<toolVars, clock, sweep, sessionLock, updates, envVars, uiVars, auxVars>>

\* session_manager.py 27: with self.lock
Acquire(w) ==
    /\ worker[w].pc = "acquire"
    /\ LockFree(sessionLock, worker[w].sid)
    /\ sessionLock' = sessionLock @@ (worker[w].sid :> w)
    /\ worker' = [worker EXCEPT ![w].pc = "read"]
    /\ UNCHANGED <<toolVars, clock, sweep, updates, ops, envVars, uiVars, auxVars>>

\* session_manager.py 29: task_count += 1 loads the count ...
ReadCount(w) ==
    /\ worker[w].pc = "read"
    /\ worker' = [worker EXCEPT ![w].pc = "write", ![w].tmp = sessions[worker[w].sid]]
    /\ UNCHANGED <<toolVars, clock, sweep, sessionLock, updates, ops, envVars, uiVars,
                   auxVars>>

\* ... and stores the count plus one
WriteCount(w) ==
    /\ worker[w].pc = "write"
    /\ sessions' = [sessions EXCEPT ![worker[w].sid] = worker[w].tmp + 1]
    /\ worker' = [worker EXCEPT ![w].pc = "release"]
    /\ UNCHANGED <<nextSid, currentContext, bundles, baseDir, gpu, fsDirs, fsFiles, pc,
                   call, started, mtime, clock, sweep, sessionLock, updates, ops, envVars, uiVars,
                   auxVars>>

\* the end of the with block of update_activity; inside clear_session the
\* caller goes on to log, return True and leave its own with block
Release(w) ==
    /\ worker[w].pc = "release"
    /\ sessionLock' = Unlock(sessionLock, worker[w].sid)
    /\ updates' = [updates EXCEPT ![worker[w].sid] = @ + 1]
    /\ worker' = [worker EXCEPT ![w] = NoWork]
    /\ UNCHANGED <<toolVars, clock, sweep, ops, envVars, uiVars, auxVars>>

\* session_manager.py 75-78: clear_session(session_id) finds the session
BeginClear(w, session_id) ==
    /\ worker[w].pc = "idle"
    /\ session_id \in DOMAIN sessions
    /\ ops < MaxOps
    /\ ops' = ops + 1
    /\ worker' = [worker EXCEPT ![w] = [pc |-> "clear_acquire", op |-> "clear",
                                         sid |-> session_id, tmp |-> 0]]
    /\ UNCHANGED <<toolVars, clock, sweep, sessionLock, updates, envVars, uiVars, auxVars>>

\* session_manager.py 79: with session_data.lock
ClearAcquire(w) ==
    /\ worker[w].pc = "clear_acquire"
    /\ LockFree(sessionLock, worker[w].sid)
    /\ sessionLock' = sessionLock @@ (worker[w].sid :> w)
    /\ worker' = [worker EXCEPT ![w].pc = "clear_zero"]
    /\ UNCHANGED <<toolVars, clock, sweep, updates, ops, envVars, uiVars, auxVars>>

\* session_manager.py 80-81: task_count = 0, then the call of
\* session_data.update_activity(), which starts by taking the same lock
ClearZero(w) ==
    /\ worker[w].pc = "clear_zero"
    /\ sessions' = [sessions EXCEPT ![worker[w].sid] = 0]
    /\ updates' = [updates EXCEPT ![worker[w].sid] = 0]
    /\ worker' = [worker EXCEPT ![w].pc = "acquire"]
    /\ UNCHANGED <<nextSid, currentContext, bundles, baseDir, gpu, fsDirs, fsFiles, pc,
                   call, started, mtime, clock, sweep, sessionLock, ops, envVars, uiVars,
                   auxVars>>

\* session_manager.py 66: get_or_create_session(session_id) tests
\* session_id and session_id in self.sessions, without the registry lock
BeginGetOrCreate(w, session_id) ==
    /\ worker[w].pc = "idle"
    /\ ops < MaxOps
    /\ ops' = ops + 1
    /\ worker' = [worker EXCEPT ![w] =
                      [pc |-> IF session_id # None /\ session_id \in DOMAIN sessions
                              THEN "lookup" ELSE "create",
                       op |-> "get_or_create", sid |-> session_id, tmp |-> 0]]
    /\ UNCHANGED <<toolVars, clock, sweep, sessionLock, updates, envVars, uiVars, auxVars>>

\* session_manager.py 71-72: new_session_id = self.create_session(), which
\* holds the registry lock while it stores the session
GetOrCreateNew(w) ==
    /\ worker[w].pc = "create"
    /\ nextSid < MaxSessions
    /\ sessions' = create_session(sessions, nextSid)
    /\ nextSid' = nextSid + 1
    /\ updates' = updates @@ (generate_session_id(nextSid + 1) :> 0)
    /\ worker' = [worker EXCEPT ![w].pc = "lookup_new",
                                 ![w].sid = generate_session_id(nextSid + 1)]
    /\ UNCHANGED <<currentContext, bundles, baseDir, gpu, fsDirs, fsFiles, pc, call,
                   started, mtime, clock, sweep, sessionLock, ops, envVars, uiVars,
                   auxVars>>

\* session_manager.py 67 and 73: self.sessions[...], without the registry
\* lock; a key that is not in the dict raises KeyError
GetOrCreateLookup(w) ==
    /\ worker[w].pc \in {"lookup", "lookup_new"}
    /\ worker' = [worker EXCEPT ![w].pc =
                      IF worker[w].sid \notin DOMAIN sessions THEN "raised"
                      ELSE IF worker[w].pc = "lookup" THEN "update" ELSE "returned"]
    /\ UNCHANGED <<toolVars, clock, sweep, sessionLock, updates, ops, envVars, uiVars, auxVars>>

\* session_manager.py 68-69: session_data.update_activity() on the object
\* found, which a removal from the registry does not destroy
GetOrCreateUpdate(w) ==
    /\ worker[w].pc = "update"
    /\ LockFree(sessionLock, worker[w].sid)
    /\ IF worker[w].sid \in DOMAIN sessions
       THEN /\ sessions' = update_activity(sessions, worker[w].sid)
            /\ updates' = [updates EXCEPT ![worker[w].sid] = @ + 1]
       ELSE UNCHANGED <<sessions, updates>>
    /\ worker' = [worker EXCEPT ![w].pc = "returned"]
    /\ UNCHANGED <<nextSid, currentContext, bundles, baseDir, gpu, fsDirs, fsFiles, pc,
                   call, started, mtime, clock, sweep, sessionLock, ops, envVars, uiVars,
                   auxVars>>

\* the caller of get_or_create_session has the session data, or the
\* exception
GetOrCreateReturn(w) ==
    /\ worker[w].op = "get_or_create"
    /\ worker[w].pc \in {"returned", "raised"}
    /\ worker' = [worker EXCEPT ![w] = NoWork]
    /\ UNCHANGED <<toolVars, clock, sweep, sessionLock, updates, ops, envVars, uiVars, auxVars>>

\* session_manager.py 86-93: remove_session(session_id), under the
\* registry lock
RemoveSession(session_id) ==
    /\ session_id \in DOMAIN sessions
    /\ ops < MaxOps
    /\ ops' = ops + 1
    /\ sessions' = [x \in (DOMAIN sessions) \ {session_id} |-> sessions[x]]
    /\ UNCHANGED <<nextSid, currentContext, bundles, baseDir, gpu, fsDirs, fsFiles, pc,
                   call, started, mtime, clock, sweep, worker, sessionLock, updates, envVars,
                   uiVars, auxVars>>

\* a step of worker w inside an operation it has begun
WorkerStep(w) ==
    \/ Acquire(w) \/ ReadCount(w) \/ WriteCount(w) \/ Release(w)
    \/ ClearAcquire(w) \/ ClearZero(w)

----------------------------------------------------------------------------
(* core.py: EC2SandboxEnv.__new__ / __init__ and the cleanup timer, step   *)
(* by step.  No lock guards _instances, _initialized or _cleanup_timer.    *)

\* core.py 47: instance_key not in cls._instances
NewCheck(b) ==
    /\ builder[b].pc = "idle"
    /\ builds < MaxBuilds
    /\ builds' = builds + 1
    /\ builder' = [builder EXCEPT ![b] = [pc |-> IF envInstances = 0 THEN "new_store"
                                                   ELSE "new_return",
                                           obj |-> 0]]
    /\ UNCHANGED <<toolVars, clock, sweep, sessVars, uiVars, envInstances, envObjects, timers,
                   stopper, provisioned, auxVars>>

\* core.py 49-50: instance = super().__new__(cls); _instances[key] = instance
NewStore(b) ==
    /\ builder[b].pc = "new_store"
    /\ envObjects' = Append(envObjects, [initialized |-> FALSE, cleanup_timer |-> 0])
    /\ envInstances' = Len(envObjects) + 1
    /\ builder' = [builder EXCEPT ![b].pc = "new_return"]
    /\ UNCHANGED <<toolVars, clock, sweep, sessVars, uiVars, timers, stopper, provisioned, builds,
                   auxVars>>

\* core.py 54: return cls._instances[instance_key]
NewReturn(b) ==
    /\ builder[b].pc = "new_return"
    /\ builder' = [builder EXCEPT ![b] = [pc |-> "init", obj |-> envInstances]]
    /\ UNCHANGED <<toolVars, clock, sweep, sessVars, uiVars, envInstances, envObjects, timers,
                   stopper, provisioned, builds, auxVars>>

\* core.py 58-59: if hasattr(self, '_initialized'): return
InitCheck(b) ==
    /\ builder[b].pc = "init"
    /\ builder' = [builder EXCEPT ![b].pc = IF envObjects[builder[b].obj].initialized
                                            THEN "built" ELSE "ensure"]
    /\ UNCHANGED <<toolVars, clock, sweep, sessVars, uiVars, envInstances, envObjects, timers,
                   stopper, provisioned, builds, auxVars>>

\* core.py 61-64: config, clients and _ensure_base_directory, whose remote
\* command may fail with a warning
EnsureBase(b, chan) ==
    /\ builder[b].pc = "ensure"
    /\ provisioned' = provisioned + 1
    /\ builder' = [builder EXCEPT ![b].pc = "start_timer"]
    /\ UNCHANGED <<toolVars, clock, sweep, sessVars, uiVars, envInstances, envObjects, timers,
                   stopper, builds, auxVars>>

\* threading.Timer.cancel: a timer that still waits will not run
Cancel(tm, k) ==
    IF k # 0 /\ tm[k].state = "armed" THEN [tm EXCEPT ![k].state = "cancelled"] ELSE tm

\* _start_cleanup_timer on object o: the timers and the objects after it
_start_cleanup_timer(objs, tm, o) ==
    [timers |-> Append(Cancel(tm, objs[o].cleanup_timer),
                       [state |-> "armed", obj |-> o, chan |-> ""]),
     objects |-> [objs EXCEPT ![o].cleanup_timer = Len(tm) + 1]]

\* core.py 67-69: self._cleanup_timer = None; self._start_cleanup_timer()
StartTimer(b) ==
    /\ builder[b].pc = "start_timer"
    /\ LET o == builder[b].obj
           reset == [envObjects EXCEPT ![o].cleanup_timer = 0]
           after == _start_cleanup_timer(reset, timers, o)
       IN  /\ timers' = after.timers
           /\ envObjects' = after.objects
    /\ builder' = [builder EXCEPT ![b].pc = "set_initialized"]
    /\ UNCHANGED <<toolVars, clock, sweep, sessVars, uiVars, envInstances, stopper, provisioned,
                   builds, auxVars>>

\* core.py 71: self._initialized = True
SetInitialized(b) ==
    /\ builder[b].pc = "set_initialized"
    /\ envObjects' = [envObjects EXCEPT ![builder[b].obj].initialized = TRUE]
    /\ builder' = [builder EXCEPT ![b].pc = "built"]
    /\ UNCHANGED <<toolVars, clock, sweep, sessVars, uiVars, envInstances, timers, stopper,
                   provisioned, builds, auxVars>>

\* the caller takes the object
BuildReturn(b) ==
    /\ builder[b].pc = "built"
    /\ builder' = [builder EXCEPT ![b].pc = "idle"]
    /\ UNCHANGED <<toolVars, clock, sweep, sessVars, uiVars, envInstances, envObjects, timers,
                   stopper, provisioned, builds, auxVars>>

\* the interval of timer k has passed: its thread calls _periodic_cleanup
TimerFire(k) ==
    /\ k \in DOMAIN timers
    /\ Len(timers) < MaxTimers
    /\ timers[k].state = "armed"
    /\ timers' = [timers EXCEPT ![k].state = "running"]
    /\ UNCHANGED <<toolVars, clock, sweep, sessVars, uiVars, envInstances, envObjects, builder,
                   stopper, provisioned, builds, auxVars>>

\* core.py 364-366: self.cleanup_old_tasks() dispatches the purge
TimerPurge(k, chan) ==
    /\ k \in DOMAIN timers
    /\ timers[k].state = "running"
    /\ LET after == cleanup_old_tasks(0, chan, baseDir, fsDirs, fsFiles, mtime, clock)
       IN  /\ fsDirs' = after.dirs
           /\ fsFiles' = after.files
           /\ mtime' = after.mtime
    /\ timers' = [timers EXCEPT ![k].state = "purged", ![k].chan = chan]
    /\ UNCHANGED <<sessions, nextSid, currentContext, bundles, baseDir, gpu, pc, call,
                   started, clock, sweep, sessVars, uiVars, envInstances, envObjects, builder,
                   stopper, provisioned, builds, auxVars>>

\* _periodic_cleanup without its finally clause: the tick ends and no timer
\* is started
TimerRestart_NoRearm(k) ==
    /\ k \in DOMAIN timers
    /\ timers[k].state = "purged"
    /\ timers' = [timers EXCEPT ![k].state = "finished"]
    /\ UNCHANGED <<toolVars, clock, sweep, sessVars, uiVars, envInstances, envObjects, builder,
                   stopper, provisioned, builds, auxVars>>

\* core.py 370-372: finally: self._start_cleanup_timer()
TimerRestart(k) ==
    /\ k \in DOMAIN timers
    /\ timers[k].state = "purged"
    /\ LET after == _start_cleanup_timer(envObjects, [timers EXCEPT ![k].state = "finished"],
                                         timers[k].obj)
       IN  /\ timers' = after.timers
           /\ envObjects' = after.objects
    /\ UNCHANGED <<toolVars, clock, sweep, sessVars, uiVars, envInstances, builder, stopper,
                   provisioned, builds, auxVars>>

\* the periodic cleanups of object o that have begun
Ticks(tm, o) == Cardinality({k \in DOMAIN tm : tm[k].obj = o /\ tm[k].state \in {"running", "purged", "finished"}})

\* core.py 374-379: stop_cleanup_timer() on an initialized environment
StopCleanupTimer(o) ==
    /\ stopper.pc = "idle"
    /\ o \in DOMAIN envObjects
    /\ envObjects[o].initialized
    /\ timers' = Cancel(timers, envObjects[o].cleanup_timer)
    /\ envObjects' = [envObjects EXCEPT ![o].cleanup_timer = 0]
    /\ stopper' = [pc |-> "stopped", obj |-> o, ticks |-> Ticks(timers, o)]
    /\ UNCHANGED <<toolVars, clock, sweep, sessVars, uiVars, envInstances, builder, provisioned,
                   builds, auxVars>>

----------------------------------------------------------------------------
(* demo_webui.py: the Agent of a session and its environment.  No lock     *)
(* guards user_agents or session_environments.                             *)

\* dict.get(k, d)
GetOr(f, k, d) == IF k \in DOMAIN f THEN f[k] ELSE d

\* d[k] = v
Put(f, k, v) == [x \in DOMAIN f \cup {k} |-> IF x = k THEN v ELSE f[x]]

\* ConfigManager.get_sandbox_config: the configuration of a named
\* environment; an unknown name raises
get_sandbox_config(environment_name) ==
    [ok |-> environment_name \in EnvNames, env |-> environment_name, base |-> ConfiguredBase]

\* create_strands_tools(config, session_id): the registry, the module
\* context and the bundles after it; the new bundle is the last one
create_strands_tools(reg, n, bs, config, session_id) ==
    LET got == get_or_create_session(reg, n, session_id)
        context == Context(got.session_id, config.base)
    IN  [sessions |-> got.sessions, nextSid |-> got.nextSid, context |-> context,
         bundles |-> Append(bs, [requested |-> session_id, session_id |-> context.session_id,
                                 env |-> config.env])]

\* demo_webui.py 237: if session_id not in self.user_agents
AgentCheck(u, session_id) ==
    /\ ui[u].pc = "idle"
    /\ uiCalls < MaxUiCalls
    /\ uiCalls' = uiCalls + 1
    /\ ui' = [ui EXCEPT ![u] = [pc |-> IF session_id \in DOMAIN user_agents
                                       THEN "agent_return" ELSE "agent_tools",
                                 sid |-> session_id, tools |-> 0, ret |-> 0]]
    /\ UNCHANGED <<toolVars, clock, sweep, sessVars, envVars, user_agents, agents,
                   session_environments, switched, auxVars>>

\* demo_webui.py 240-262: the environment of the session, its configuration,
\* the record of the environment and the tools
AgentTools(u) ==
    /\ ui[u].pc = "agent_tools"
    /\ ui[u].sid \notin DOMAIN sessions => nextSid < MaxSessions
    /\ LET session_id == ui[u].sid
           environment_name == GetOr(session_environments, session_id, DefaultEnv)
           session_config == get_sandbox_config(environment_name)
           made == create_strands_tools(sessions, nextSid, bundles, session_config, session_id)
       IN  /\ session_environments' = Put(session_environments, session_id, environment_name)
           /\ sessions' = made.sessions
           /\ nextSid' = made.nextSid
           /\ currentContext' = made.context
           /\ bundles' = made.bundles
           /\ ui' = [ui EXCEPT ![u].pc = "agent_construct", ![u].tools = Len(made.bundles)]
    /\ UNCHANGED <<baseDir, gpu, fsDirs, fsFiles, pc, call, started, mtime, clock, sweep,
                   sessVars, envVars, user_agents, agents, switched, uiCalls, auxVars>>

\* demo_webui.py 264-279: agent = Agent(...); self.user_agents[session_id] = agent
AgentConstruct(u) ==
    /\ ui[u].pc = "agent_construct"
    /\ agents' = Append(agents, [session |-> ui[u].sid, tools |-> ui[u].tools, messages |-> 0])
    /\ user_agents' = Put(user_agents, ui[u].sid, Len(agents) + 1)
    /\ ui' = [ui EXCEPT ![u].pc = "agent_return"]
    /\ UNCHANGED <<toolVars, clock, sweep, sessVars, envVars, session_environments,
                   switched, uiCalls, auxVars>>

\* demo_webui.py 281: return self.user_agents[session_id]
AgentReturn(u) ==
    /\ ui[u].pc = "agent_return"
    /\ ui' = [ui EXCEPT ![u].pc = "chat", ![u].ret = user_agents[ui[u].sid]]
    /\ UNCHANGED <<toolVars, clock, sweep, sessVars, envVars, user_agents, agents,
                   session_environments, switched, uiCalls, auxVars>>

\* chat_with_agent after it has the Agent: the exchange is added to the
\* history of the Agent
ChatTurn(u) ==
    /\ ui[u].pc = "chat"
    /\ agents' = [agents EXCEPT ![ui[u].ret].messages = IF @ < MaxMessages THEN @ + 1 ELSE @]
    /\ ui' = [ui EXCEPT ![u] = NoUi]
    /\ UNCHANGED <<toolVars, clock, sweep, sessVars, envVars, user_agents,
                   session_environments, switched, uiCalls, auxVars>>

\* the same-environment test with every request taken for a change
SameEnvironment_Never(environment_name, current) == FALSE

\* demo_webui.py 169: environment_name == self.session_environments.get(session_id)
SameEnvironment(environment_name, current) == environment_name = current

\* demo_webui.py 166-193: switch_environment(environment_name, session_id)
SwitchEnvironment(environment_name, session_id) ==
    /\ switched.pc = "idle"
    /\ uiCalls < MaxUiCalls
    /\ uiCalls' = uiCalls + 1
    /\ LET current == GetOr(session_environments, session_id, None)
           new_config == get_sandbox_config(environment_name)
           before == [agents |-> agents, user_agents |-> user_agents,
                      session_environments |-> session_environments,
                      bundles |-> bundles, sessions |-> sessions]
           log(outcome) == [pc |-> "switched", env |-> environment_name,
                            sid |-> session_id, outcome |-> outcome, before |-> before]
       IN  IF SameEnvironment(environment_name, current)
           THEN /\ switched' = log("same")
                /\ UNCHANGED <<sessions, nextSid, currentContext, bundles, agents,
                               session_environments>>
           ELSE IF ~ new_config.ok
           THEN /\ switched' = log("failed")
                /\ UNCHANGED <<sessions, nextSid, currentContext, bundles, agents,
                               session_environments>>
           ELSE IF session_id \in DOMAIN user_agents
           THEN /\ session_id \notin DOMAIN sessions => nextSid < MaxSessions
                /\ LET made == create_strands_tools(sessions, nextSid, bundles, new_config,
                                                    session_id)
                   IN  /\ sessions' = made.sessions
                       /\ nextSid' = made.nextSid
                       /\ currentContext' = made.context
                       /\ bundles' = made.bundles
                       /\ agents' = [agents EXCEPT ![user_agents[session_id]].tools =
                                                      Len(made.bundles)]
                /\ session_environments' = Put(session_environments, session_id,
                                               environment_name)
                /\ switched' = log("switched")
           ELSE /\ session_environments' = Put(session_environments, session_id,
                                               environment_name)
                /\ switched' = log("switched")
                /\ UNCHANGED <<sessions, nextSid, currentContext, bundles, agents>>
    /\ UNCHANGED <<baseDir, gpu, fsDirs, fsFiles, pc, call, started, mtime, clock, sweep,
                   sessVars, envVars, user_agents, ui, auxVars>>

\* the caller takes the response
SwitchReturn ==
    /\ switched.pc = "switched"
    /\ switched' = NoSwitch
    /\ UNCHANGED <<toolVars, clock, sweep, sessVars, envVars, user_agents, agents,
                   session_environments, ui, uiCalls, auxVars>>

----------------------------------------------------------------------------
(* strands_tools.py: get_session_files *)

\* the directory a path names on the instance: each ".." leaves the
\* directory named so far
RECURSIVE Normalize(_)
Normalize(path) ==
    IF path = <<>> THEN <<>>
    ELSE LET init == Normalize(SubSeq(path, 1, Len(path) - 1))
             last == path[Len(path)]
         IN  IF last = ".."
             THEN (IF init = <<>> THEN <<>> ELSE SubSeq(init, 1, Len(init) - 1))
             ELSE Append(init, last)

\* whether path p is path q or an ancestor of it
IsPrefix(p, q) == Len(p) <= Len(q) /\ SubSeq(q, 1, Len(p)) = p

\* the directory that find is given: the path as written, and the task hash
\* it ends with, if any
SearchRoot(path, arg) == [path |-> path \o arg.up, hash |-> arg.hash]

\* find <root> -name '<filename>' -type f: the files it prints
FindByName(root, filename, files) ==
    {f \in files :
        /\ f.name = filename
        /\ IF root.hash # NoHash
           THEN f.dir = TaskDir(Normalize(root.path), root.hash)
           ELSE IsPrefix(Normalize(root.path), f.dir.parent)}

\* find <path> -maxdepth 1 -type d ! -path <path>: the task directories
FindTaskDirs(path, dirs) == {d \in dirs : d.hash # NoHash /\ d.parent = path}

\* get_session_files(filename, task_hash) in context ctx: the response, the
\* directories given to find and the files given to cat.  [pick] is the
\* first line that find prints, if it prints any
get_session_files(ctx, filename, task_hash, find_chan, read_chan, pick, dirs, files) ==
    LET path == session_path(ctx)
        root == SearchRoot(path, task_hash)
        task_dirs == IF find_chan = "ok" THEN FindTaskDirs(path, dirs) ELSE {}
        listed == {f \in files : f.dir \in task_dirs}
    IN  IF ctx = NoContext
        THEN [result |-> create_error("text", None, NoData), searched |-> {}, read |-> {}]
        ELSE IF filename # NoName
        THEN IF find_chan = "ok" /\ pick \in FindByName(root, filename, files)
             THEN IF read_chan = "ok"
                  THEN [result |-> create_success([kind |-> "file", filename |-> filename,
                                                   found_in_task |-> pick.dir.hash,
                                                   full_path |-> pick],
                                                  "text", ctx.session_id),
                        searched |-> {root}, read |-> {pick}]
                  ELSE [result |-> create_error("text", ctx.session_id,
                                                [kind |-> "file_path", file_path |-> pick]),
                        searched |-> {root}, read |-> {pick}]
             ELSE [result |-> create_error("text", ctx.session_id,
                                           [kind |-> "searched_in", searched_in |-> path]),
                   searched |-> {root}, read |-> {}]
        ELSE [result |-> create_success([kind |-> "files",
                                         files |-> {[task |-> f.dir.hash, name |-> f.name,
                                                     content |-> read_chan = "ok"] : f \in listed},
                                         total_tasks |-> Cardinality({f.dir : f \in listed})],
                                        "text", ctx.session_id),
              searched |-> {SearchRoot(path, NoHashArg)}
                           \cup {[path |-> d.parent, hash |-> d.hash] : d \in task_dirs},
              read |-> listed]

\* a caller uses the get_session_files tool of bundle b; the tool reads the
\* module context
GetSessionFiles(b, filename, task_hash, find_chan, read_chan) ==
    /\ toolCall.pc = "idle"
    /\ b \in 1..Len(bundles)
    /\ \E pick \in fsFiles \cup {File(NoDir, NoName, NoHash)} :
          LET root == SearchRoot(session_path(currentContext), task_hash)
              found == FindByName(root, filename, fsFiles)
              got == get_session_files(currentContext, filename, task_hash, find_chan,
                                       read_chan, pick, fsDirs, fsFiles)
          IN  /\ IF filename # NoName /\ find_chan = "ok" /\ found # {}
                 THEN pick \in found
                 ELSE pick \notin fsFiles
              /\ toolCall' = [pc |-> "done", tool |-> "get_session_files", bundle |-> b,
                              filename |-> filename,
                              task_hash |-> task_hash, find_chan |-> find_chan,
                              read_chan |-> read_chan, ctx |-> currentContext,
                              searched |-> got.searched, read |-> got.read,
                              result |-> got.result]
    /\ UNCHANGED <<toolVars, clock, sweep, sessVars, envVars, uiVars, sanitized, applied>>

\* list_session_structure() in context ctx: the response and the
\* directories given to find and ls; no file is given to cat
list_session_structure(ctx, reg, find_chan, ls_chan, dirs, files) ==
    LET path == session_path(ctx)
        task_dirs == IF find_chan = "ok" THEN FindTaskDirs(path, dirs) ELSE {}
        task_info(d) == [task |-> d.hash,
                         files |-> IF ls_chan = "ok" THEN {f.name : f \in {g \in files : g.dir = d}}
                                   ELSE {}]
    IN  IF ctx = NoContext
        THEN [result |-> create_error("text", None, NoData), searched |-> {}]
        ELSE [result |-> create_success([kind |-> "structure", session_path |-> path,
                                         task_count |-> reg[ctx.session_id],
                                         tasks |-> {task_info(d) : d \in task_dirs}],
                                        "text", ctx.session_id),
              searched |-> {SearchRoot(path, NoHashArg)}
                           \cup {[path |-> d.parent, hash |-> d.hash] : d \in task_dirs}]

\* a caller uses the list_session_structure tool of bundle b
ListSessionStructure(b, find_chan, ls_chan) ==
    /\ toolCall.pc = "idle"
    /\ b \in 1..Len(bundles)
    /\ LET got == list_session_structure(currentContext, sessions, find_chan, ls_chan,
                                         fsDirs, fsFiles)
       IN  toolCall' = [NoToolCall EXCEPT !.pc = "done", !.tool = "list_session_structure",
                                          !.bundle = b, !.find_chan = find_chan,
                                          !.read_chan = ls_chan, !.ctx = currentContext,
                                          !.searched = got.searched, !.result = got.result]
    /\ UNCHANGED <<toolVars, clock, sweep, sessVars, envVars, uiVars, sanitized, applied>>

\* check_sandbox_status() in context ctx: check_instance_status returns the
\* status of the instance or a dict with the error of the API, and the tool
\* adds the tasks and the task count of the session
check_sandbox_status(ctx, reg, api) ==
    IF ctx = NoContext
    THEN create_success([kind |-> "status", error |-> api # "ok", task_count |-> NoCount],
                        "text", None)
    ELSE create_success([kind |-> "status", error |-> api # "ok",
                         task_count |-> reg[ctx.session_id]],
                        "text", ctx.session_id)

\* a caller uses the check_sandbox_status tool of bundle b
CheckSandboxStatus(b, api) ==
    /\ toolCall.pc = "idle"
    /\ b \in 1..Len(bundles)
    /\ toolCall' = [NoToolCall EXCEPT !.pc = "done", !.tool = "check_sandbox_status",
                                      !.bundle = b, !.find_chan = api, !.ctx = currentContext,
                                      !.result = check_sandbox_status(currentContext,
                                                                      sessions, api)]
    /\ UNCHANGED <<toolVars, clock, sweep, sessVars, envVars, uiVars, sanitized, applied>>

\* the caller takes the response
FilesReturn ==
    /\ toolCall.pc = "done"
    /\ toolCall' = NoToolCall
    /\ UNCHANGED <<toolVars, clock, sweep, sessVars, envVars, uiVars, sanitized, applied>>

\* time passes
Tick ==
    /\ clock < MaxClock
    /\ clock' = clock + 1
    /\ UNCHANGED <<toolVars, sweep, sessVars, envVars, uiVars, auxVars>>

----------------------------------------------------------------------------
(* Specifications *)

\* Tool bundles are created and invocations of two threads overlap
Next ==
    \/ \E a \in SessionArgs : CreateTools(a)
    \/ \E t \in Threads, b \in 1..MaxBundles, r \in ToolRequests :
          started < MaxCalls /\ Invoke(t, b, r)
    \/ \E t \in Threads : SaveBase(t)
    \/ \E t \in Threads : SetBase(t)
    \/ \E t \in Threads, ch \in ToolChannelOutcomes : Provision(t, ch)
    \/ \E t \in Threads, o \in Outcomes(ToolChannelOutcomes, ToolPrograms) :
          Run(t, o.chan, o.prog)
    \/ \E t \in Threads : UpdateActivity(t)
    \/ \E t \in Threads : RestoreBase(t)
    \/ \E t \in Threads : Respond(t)
    \/ \E t \in Threads : Return(t)

Spec == Init /\ [][Next]_vars

\* One caller sends every request to SandboxInstance.execute_code
NextExec ==
    \/ \E r \in ExecRequests : started < MaxExecCalls /\ DirectCall("t1", r)
    \/ \E ch \in ChannelOutcomes : Provision("t1", ch)
    \/ \E o \in Outcomes(ChannelOutcomes, Programs) : Run("t1", o.chan, o.prog)
    \/ Return("t1")

SpecExec == Init /\ [][NextExec]_vars

\* One caller creates bundles and sends requests to their tool
NextTool ==
    \/ \E a \in SessionArgs : CreateTools(a)
    \/ \E b \in 1..MaxBundles, r \in PathRequests :
          started < MaxExecCalls /\ Invoke("t1", b, r)
    \/ SaveBase("t1")
    \/ SetBase("t1")
    \/ \E ch \in ChannelOutcomes : Provision("t1", ch)
    \/ \E o \in Outcomes(ChannelOutcomes, Programs) : Run("t1", o.chan, o.prog)
    \/ UpdateActivity("t1")
    \/ RestoreBase("t1")
    \/ Respond("t1")
    \/ Return("t1")

SpecTool == Init /\ [][NextTool]_vars

\* the requests that differ only in whether they name a task id
HashRequests ==
    {Request("c_limit", "python", tid, {}, {}, TRUE) : tid \in {"job", None}}

\* whether no invocation is under way
Quiet == \A t \in Threads : pc[t] \in {"idle", "done"}

\* Callers invoke the tool one after the other, t1 first, while time passes
\* between the invocations; a caller keeps its result
NextHash ==
    \/ \E a \in SessionArgs : Quiet /\ CreateTools(a)
    \/ Quiet /\ Tick
    \/ \E t \in Threads, b \in 1..MaxBundles, r \in HashRequests :
          /\ Quiet /\ started < MaxCalls
          /\ t = "t2" => pc["t1"] = "done"
          /\ Invoke(t, b, r)
    \/ \E t \in Threads : SaveBase(t)
    \/ \E t \in Threads : SetBase(t)
    \/ \E t \in Threads : Provision(t, "ok")
    \/ \E t \in Threads, o \in Outcomes({"ok"}, ToolPrograms) : Run(t, o.chan, o.prog)
    \/ \E t \in Threads : UpdateActivity(t)
    \/ \E t \in Threads : RestoreBase(t)
    \/ \E t \in Threads : Respond(t)

SpecHash == Init /\ [][NextHash]_vars

\* the tasks that fill the session directories
CleanupRequests ==
    {Request(c, "python", "job", f, {}, TRUE) :
        c \in {"c_under", "c_limit"}, f \in {{}, {SafeName}}}

\* the hours given to cleanup_expired_tasks: none, or one hour
CleanupHours == {0, 1}

\* whether nothing is under way: no invocation and no cleanup
Still == Quiet /\ sweep.pc = "idle" /\ pc["t1"] = "idle"

\* One caller runs tasks and cleanups one after the other while time passes
NextCleanup ==
    \/ \E a \in SessionArgs : Still /\ CreateTools(a)
    \/ Still /\ Tick
    \/ \E b \in 1..MaxBundles, r \in CleanupRequests :
          Still /\ started < MaxCalls /\ Invoke("t1", b, r)
    \/ SaveBase("t1")
    \/ SetBase("t1")
    \/ Provision("t1", "ok")
    \/ Run("t1", "ok", SilentProgram)
    \/ UpdateActivity("t1")
    \/ RestoreBase("t1")
    \/ Respond("t1")
    \/ Return("t1")
    \/ \E h \in CleanupHours, ch \in ToolChannelOutcomes : Still /\ CleanupExpiredTasks(h, ch)
    \/ CleanupReturn

SpecCleanup == Init /\ [][NextCleanup]_vars

\* Threads update the activity of registered sessions concurrently
NextSession ==
    \/ CreateSession
    \/ \E w \in Workers, x \in DOMAIN sessions : BeginUpdate(w, x)
    \/ \E w \in Workers : Acquire(w)
    \/ \E w \in Workers : ReadCount(w)
    \/ \E w \in Workers : WriteCount(w)
    \/ \E w \in Workers : Release(w)

SpecSession == Init /\ [][NextSession]_vars

\* Threads update and clear registered sessions concurrently; every thread
\* that can take a step is scheduled
NextClear ==
    \/ CreateSession
    \/ \E w \in Workers, x \in DOMAIN sessions : BeginUpdate(w, x)
    \/ \E w \in Workers, x \in DOMAIN sessions : BeginClear(w, x)
    \/ \E w \in Workers : Acquire(w)
    \/ \E w \in Workers : ReadCount(w)
    \/ \E w \in Workers : WriteCount(w)
    \/ \E w \in Workers : Release(w)
    \/ \E w \in Workers : ClearAcquire(w)
    \/ \E w \in Workers : ClearZero(w)

\* Threads get, create and remove sessions of the registry concurrently
NextRegistry ==
    \/ \E w \in Workers, x \in DOMAIN sessions \cup {None} : BeginGetOrCreate(w, x)
    \/ \E w \in Workers : GetOrCreateNew(w)
    \/ \E w \in Workers : GetOrCreateLookup(w)
    \/ \E w \in Workers : GetOrCreateUpdate(w)
    \/ \E w \in Workers : GetOrCreateReturn(w)
    \/ \E x \in DOMAIN sessions : RemoveSession(x)

SpecRegistry == Init /\ [][NextRegistry]_vars

\* Threads construct EC2SandboxEnv with the same instance id and region
\* concurrently, and the timers fire
NextEnv ==
    \/ \E b \in Builders : NewCheck(b)
    \/ \E b \in Builders : NewStore(b)
    \/ \E b \in Builders : NewReturn(b)
    \/ \E b \in Builders : InitCheck(b)
    \/ \E b \in Builders, ch \in ToolChannelOutcomes : EnsureBase(b, ch)
    \/ \E b \in Builders : StartTimer(b)
    \/ \E b \in Builders : SetInitialized(b)
    \/ \E b \in Builders : BuildReturn(b)
    \/ \E k \in 1..MaxTimers : TimerFire(k)
    \/ \E k \in 1..MaxTimers, ch \in ToolChannelOutcomes : TimerPurge(k, ch)
    \/ \E k \in 1..MaxTimers : TimerRestart(k)

SpecEnv == Init /\ [][NextEnv]_vars

\* One thread constructs EC2SandboxEnv, the timers fire, and a caller stops
\* the timer at any moment
NextTimer ==
    \/ NewCheck("b1")
    \/ NewStore("b1")
    \/ NewReturn("b1")
    \/ InitCheck("b1")
    \/ \E ch \in ToolChannelOutcomes : EnsureBase("b1", ch)
    \/ StartTimer("b1")
    \/ SetInitialized("b1")
    \/ BuildReturn("b1")
    \/ \E k \in 1..MaxTimers : TimerFire(k)
    \/ \E k \in 1..MaxTimers, ch \in ToolChannelOutcomes : TimerPurge(k, ch)
    \/ \E k \in 1..MaxTimers : TimerRestart(k)
    \/ \E o \in 1..MaxBuilds : StopCleanupTimer(o)

SpecTimer == Init /\ [][NextTimer]_vars

\* Requests of the web UI for the Agent of a session overlap
NextAgent ==
    \/ \E u \in UiThreads, sid \in CallerIds : AgentCheck(u, sid)
    \/ \E u \in UiThreads : AgentTools(u)
    \/ \E u \in UiThreads : AgentConstruct(u)
    \/ \E u \in UiThreads : AgentReturn(u)
    \/ \E u \in UiThreads : ChatTurn(u)

SpecAgent == Init /\ [][NextAgent]_vars

\* no switch_environment call is waiting for its caller
Settled == switched.pc = "idle"

\* One thread of the web UI chats and switches environments
NextSwitch ==
    \/ \E sid \in CallerIds : Settled /\ AgentCheck("u1", sid)
    \/ Settled /\ AgentTools("u1")
    \/ Settled /\ AgentConstruct("u1")
    \/ Settled /\ AgentReturn("u1")
    \/ Settled /\ ChatTurn("u1")
    \/ \E env \in UiEnvRequests, sid \in CallerIds :
          ui["u1"].pc = "idle" /\ SwitchEnvironment(env, sid)
    \/ SwitchReturn

SpecSwitch == Init /\ [][NextSwitch]_vars

\* the tasks whose files are read
FileRequests ==
    {Request(c, "python", "job", f, {}, TRUE) :
        c \in {"c_under", "c_limit"}, f \in {{}, {SafeName}}}

\* the file names asked for: none, a seed file, a file that does not exist
FileNameArgs == {NoName, SafeName, <<"n", "o">>}

\* the task_hash arguments: none, the name of a task directory that exists,
\* and texts that lead out of the session directory
HashArgs ==
    {NoHashArg} \cup {HashArg(<<>>, d.hash) : d \in fsDirs}
    \cup {HashArg(<<"..", sid>>, h) : sid \in DOMAIN sessions, h \in {d.hash : d \in fsDirs} \cup {NoHash}}

\* whether nothing is under way: no invocation and no file call
Calm == Quiet /\ toolCall.pc = "idle" /\ pc["t1"] = "idle"

\* One caller runs tasks and reads their files, one call after the other
NextFiles ==
    \/ \E a \in SessionArgs : Calm /\ CreateTools(a)
    \/ \E b \in 1..MaxBundles, r \in FileRequests :
          Calm /\ started < MaxCalls /\ Invoke("t1", b, r)
    \/ SaveBase("t1")
    \/ SetBase("t1")
    \/ Provision("t1", "ok")
    \/ Run("t1", "ok", SilentProgram)
    \/ UpdateActivity("t1")
    \/ RestoreBase("t1")
    \/ Respond("t1")
    \/ Return("t1")
    \/ \E b \in 1..MaxBundles, n \in FileNameArgs, h \in HashArgs, fc \in ToolChannelOutcomes, rc \in ToolChannelOutcomes :
          Calm /\ GetSessionFiles(b, n, h, fc, rc)
    \/ FilesReturn

SpecFiles == Init /\ [][NextFiles]_vars

\* sanitize_env_var(key, value)
Sanitize(key, value) ==
    /\ sanitized.pc = "idle"
    /\ sanitized' = [NoSanitize EXCEPT !.pc = "once", !.key = key, !.value = value,
                                       !.once = sanitize_env_var(key, value)]
    /\ UNCHANGED <<toolVars, clock, sweep, sessVars, envVars, uiVars, toolCall, applied>>

\* sanitize_env_var on the pair that the first call returned
SanitizeAgain ==
    /\ sanitized.pc = "once"
    /\ ~ sanitized.once.raised
    /\ sanitized' = [sanitized EXCEPT !.pc = "twice",
                         !.twice = sanitize_env_var(sanitized.once.key, sanitized.once.value)]
    /\ UNCHANGED <<toolVars, clock, sweep, sessVars, envVars, uiVars, toolCall, applied>>

SanitizeReturn ==
    /\ sanitized.pc \in {"once", "twice"}
    /\ sanitized' = NoSanitize
    /\ UNCHANGED <<toolVars, clock, sweep, sessVars, envVars, uiVars, toolCall, applied>>

\* the request of the runs in which the purge meets an invocation
PurgeRequest == Request("c_limit", "python", "job", {}, {}, TRUE)

\* One thread constructs EC2SandboxEnv and its timers fire, while a caller
\* invokes the execution tool and the cleanup tool of its bundle
NextPurge ==
    \/ NewCheck("b1")
    \/ NewStore("b1")
    \/ NewReturn("b1")
    \/ InitCheck("b1")
    \/ EnsureBase("b1", "ok")
    \/ StartTimer("b1")
    \/ SetInitialized("b1")
    \/ BuildReturn("b1")
    \/ \E k \in 1..MaxTimers : TimerFire(k)
    \/ \E k \in 1..MaxTimers, ch \in ToolChannelOutcomes : TimerPurge(k, ch)
    \/ \E k \in 1..MaxTimers : TimerRestart(k)
    \/ \E a \in SessionArgs : pc["t1"] = "idle" /\ CreateTools(a)
    \/ \E b \in 1..MaxBundles : started < MaxExecCalls /\ Invoke("t1", b, PurgeRequest)
    \/ SaveBase("t1")
    \/ SetBase("t1")
    \/ Provision("t1", "ok")
    \/ Run("t1", "ok", SilentProgram)
    \/ UpdateActivity("t1")
    \/ RestoreBase("t1")
    \/ Respond("t1")
    \/ Return("t1")
    \/ \E h \in CleanupHours, ch \in ToolChannelOutcomes : CleanupExpiredTasks(h, ch)
    \/ CleanupReturn

SpecPurge == Init /\ [][NextPurge]_vars

\* the caller takes the result of the pure function
ApplyReturn ==
    /\ applied.fn # ""
    /\ applied' = NoApplied
    /\ UNCHANGED <<toolVars, clock, sweep, sessVars, envVars, uiVars, toolCall, sanitized>>

\* the entries that ls -la always prints
Dots == {LsEntry("d", <<".">>, NoHash), LsEntry("d", <<".", ".">>, NoHash)}

\* the listings of a directory in which each of three names is absent, a
\* regular file, a directory or a symbolic link
ListedNames == {<<"a">>, <<"b">>, <<"c">>}
EntryTypes == {"-", "d", "l"}
Listings ==
    {Dots \cup {LsEntry(kind[n], n, NoHash) : n \in {m \in ListedNames : kind[m] # ""}} :
        kind \in [ListedNames -> EntryTypes \cup {""}]}

\* sandbox.py 197-201: files_created from a standard output that holds two
\* FILES_CREATED markers, each followed by a listing
ParseFileList(first, last) ==
    /\ applied.fn = ""
    /\ LET stdout == <<FilesMarker, LsBlock(first), FilesMarker, LsBlock(last)>>
       IN  applied' = [fn |-> "parse_file_list", arg |-> stdout, out |-> FilesCreated(stdout)]
    /\ UNCHANGED <<toolVars, clock, sweep, sessVars, envVars, uiVars, toolCall, sanitized>>

\* files_created of every listing
NextListing ==
    \/ \E first \in {Dots, Dots \cup {LsEntry("-", <<"z">>, NoHash)}}, last \in Listings :
          ParseFileList(first, last)
    \/ ApplyReturn

SpecListing == Init /\ [][NextListing]_vars

\* the file names given to is_safe_filename: every text of a few
\* characters, and device names
NameChars == {"a", ".", "/", "-"}
FileNames ==
    UNION {[1..n -> NameChars] : n \in 0..MaxNameLen}
    \cup {<<"C", "O", "N">>, <<"c", "o", "n", ".", "a">>, <<"C", "O", "N", "a">>}

\* is_safe_filename(filename)
IsSafeFilename(filename) ==
    /\ applied.fn = ""
    /\ applied' = [fn |-> "is_safe_filename", arg |-> filename, out |-> is_safe_filename(filename)]
    /\ UNCHANGED <<toolVars, clock, sweep, sessVars, envVars, uiVars, toolCall, sanitized>>

\* is_safe_filename applied to every file name
NextFilename ==
    \/ \E n \in FileNames : IsSafeFilename(n)
    \/ ApplyReturn

SpecFilename == Init /\ [][NextFilename]_vars

\* config_manager.py 117: the values of max_execution_time that the
\* configuration check lets through
ExecutionTimes == 30..3600

\* core.py 158: TimeoutSeconds of send_command
TimeoutSeconds(max_execution_time) == Min({max_execution_time, 3600})

\* core.py 165: max_attempts of the waiter
max_attempts(max_execution_time) == Max({30, max_execution_time \div 2})

\* core.py 170: Delay of the waiter, in seconds
WaiterDelay == 2

\* core.py 152-173: _execute_remote_command sends the command with its
\* timeout and waits for it with its number of attempts
ExecuteRemoteCommand(max_execution_time) ==
    /\ applied.fn = ""
    /\ applied' = [fn |-> "_execute_remote_command", arg |-> max_execution_time,
                   out |-> [TimeoutSeconds |-> TimeoutSeconds(max_execution_time),
                            MaxAttempts |-> max_attempts(max_execution_time),
                            Delay |-> WaiterDelay]]
    /\ UNCHANGED <<toolVars, clock, sweep, sessVars, envVars, uiVars, toolCall, sanitized>>

\* a command sent under every configured max_execution_time
NextWaiter ==
    \/ \E t \in ExecutionTimes : ExecuteRemoteCommand(t)
    \/ ApplyReturn

SpecWaiter == Init /\ [][NextWaiter]_vars

\* sanitize_env_var applied to every name and value, and to what it returns
NextSanitize ==
    \/ \E k \in EnvKeys, v \in EnvValues : Sanitize(k, v)
    \/ SanitizeAgain
    \/ SanitizeReturn

SpecSanitize == Init /\ [][NextSanitize]_vars

\* the requests of the runs that use every tool of the bundle
BundleRequests ==
    ToolRequests \cup {Request("c_limit", "python", "job", {SafeName, UnsafeName}, {}, TRUE),
                       Request("c_limit", "python", "job", {}, {GoodVar, BadVar}, FALSE)}

\* the task_hash arguments of those runs: none, or a task directory
TaskHashArgs == {NoHashArg} \cup {HashArg(<<>>, d.hash) : d \in fsDirs}

\* whether no tool is under way
Idle == Calm /\ sweep.pc = "idle"

\* One caller uses the five tools of its bundles, one call after the other,
\* with every outcome of the channel and of the program
NextBundle ==
    \/ \E a \in SessionArgs : Idle /\ CreateTools(a)
    \/ \E b \in 1..MaxBundles, r \in BundleRequests :
          Idle /\ started < MaxExecCalls /\ Invoke("t1", b, r)
    \/ SaveBase("t1")
    \/ SetBase("t1")
    \/ \E ch \in ChannelOutcomes : Provision("t1", ch)
    \/ \E o \in Outcomes(ChannelOutcomes, ToolPrograms) : Run("t1", o.chan, o.prog)
    \/ UpdateActivity("t1")
    \/ RestoreBase("t1")
    \/ Respond("t1")
    \/ Return("t1")
    \/ \E b \in 1..MaxBundles, n \in FileNameArgs, h \in TaskHashArgs, fc \in ToolChannelOutcomes, rc \in ToolChannelOutcomes :
          Idle /\ GetSessionFiles(b, n, h, fc, rc)
    \/ \E b \in 1..MaxBundles, fc \in ToolChannelOutcomes, lc \in ToolChannelOutcomes :
          Idle /\ ListSessionStructure(b, fc, lc)
    \/ \E b \in 1..MaxBundles, api \in ToolChannelOutcomes : Idle /\ CheckSandboxStatus(b, api)
    \/ FilesReturn
    \/ \E h \in CleanupHours, ch \in ToolChannelOutcomes : Idle /\ CleanupExpiredTasks(h, ch)
    \/ CleanupReturn

SpecBundle == Init /\ [][NextBundle]_vars

\* the timer thread runs: an armed timer fires when its interval has passed,
\* and _periodic_cleanup goes on to its end
TimerRuns(k) ==
    /\ WF_vars(TimerFire(k))
    /\ WF_vars(\E ch \in ToolChannelOutcomes : TimerPurge(k, ch))
    /\ WF_vars(TimerRestart(k))

SpecSweeper == Init /\ [][NextTimer]_vars /\ \A k \in 1..MaxTimers : TimerRuns(k)

SpecClear == Init /\ [][NextClear]_vars /\ \A w \in Workers : WF_vars(WorkerStep(w))

----------------------------------------------------------------------------
(* Properties *)

Done(t) == pc[t] = "done"

\* the invocation of t went through the tool of a bundle
ViaTool(t) == call[t].kind = "tool"

\* the directory of the session that bundle b was built for
BundleSessionDir(b) == Append(ConfiguredBase, bundles[b].session_id)

HasResult(t) == pc[t] \in {"activity", "restore", "respond", "done"}

\* C1: an invocation made through the bundle built for session A creates
\* its task directory under <baseDir>/A, whatever other bundles were built
\* before or after it
C1_BundleStaysInOwnSession ==
    \A t \in Threads :
        (ViaTool(t) /\ call[t].working_dir # NoDir)
            => call[t].working_dir.parent = BundleSessionDir(call[t].bundle)

\* C2: every result returned by a tool of the bundle built for session id S
\* carries session_id = S, the id passed to create_strands_tools
C2_ResultCarriesRequestedSession ==
    \A t \in Threads :
        (Done(t) /\ ViaTool(t))
            => call[t].result.session_id = bundles[call[t].bundle].requested

\* C3: also when invocations overlap, the task directory of an invocation is
\* <baseDir>/<own session id>/<fingerprint>, and its command runs there
C3_TaskDirInOwnSessionDir ==
    \A t \in Threads :
        (ViaTool(t) /\ call[t].working_dir # NoDir)
            => call[t].working_dir = TaskDir(session_path(call[t].ctx), call[t].task_hash)

HasUnsafeName(req) == \E f \in req.files : ~ is_safe_filename(f)

\* C4: a request whose files map holds an unsafe name returns success=false
\* and dispatches no remote command, whatever its other fields are
C4_UnsafeNameFailsWithoutDispatch ==
    \A t \in Threads :
        (Done(t) /\ HasUnsafeName(call[t].req))
            => (~ call[t].result.success /\ call[t].sent = 0)

\* C5: code longer than 71680 bytes is rejected with success=false and
\* return_code=1, without a remote command and without a change of the
\* session's task_count; code of exactly 71680 bytes passes the size check
\* and gets the response that carries the session's task_count
C5_SizeLimit ==
    /\ [](\A t \in Threads :
            (Done(t) /\ ViaTool(t)) =>
                IF code_size(call[t].req.code) > MAX_CODE_SIZE
                THEN /\ ~ call[t].result.success
                     /\ call[t].result.return_code = 1
                     /\ call[t].sent = 0
                     /\ call[t].result.task_count = NoCount
                ELSE call[t].result.task_count # NoCount)
    /\ [][\A t \in Threads :
            (pc[t] = "idle" /\ pc'[t] = "done") => (sessions' = sessions /\ fsDirs' = fsDirs)]_vars

C5_Witness ==
    \E t \in Threads :
        /\ Done(t) /\ ViaTool(t)
        /\ code_size(call[t].req.code) = MAX_CODE_SIZE + 1
        /\ ~ call[t].result.success

\* C6: a request whose runtime is not allowed returns success=false,
\* return_code=1 and an error message, dispatches no remote command, and no
\* task directory or file exists for it afterwards
C6_RuntimeNotAllowed ==
    /\ \A t \in Threads :
          (Done(t) /\ call[t].req.runtime \notin allowed_runtimes)
              => /\ ~ call[t].result.success
                 /\ call[t].result.return_code = 1
                 /\ call[t].result.error_message = "text"
                 /\ call[t].sent = 0
    /\ \A d \in fsDirs : d.hash.runtime \in allowed_runtimes
    /\ \A f \in fsFiles : f.hash = NoHash \/ f.hash.runtime \in allowed_runtimes

C6_Witness ==
    \E t \in Threads :
        /\ Done(t)
        /\ call[t].req.runtime = "ruby"
        /\ call[t].req.create_filesystem
        /\ call[t].result = InvalidRuntimeResult

HasInvalidEnvName(req) == \E v \in req.env_vars : ~ ValidEnvName(v.key)

\* C7: a request with an invalid environment variable name returns
\* success=false and never invokes the remote channel
C7_InvalidEnvNameNeverDispatches ==
    \A t \in Threads :
        (Done(t) /\ HasInvalidEnvName(call[t].req))
            => (~ call[t].result.success /\ call[t].sent = 0)

\* C8: when the remote channel fails on the execution command, the result
\* has success=false and return_code=1
C8_ChannelFailureIsFailure ==
    \A t \in Threads :
        (Done(t) /\ call[t].exec_chan \in {"unsent", "lost"})
            => (~ call[t].result.success /\ call[t].result.return_code = 1)

\* C9: when the submitted program exits with a non-zero code rc, the result
\* has success=false and return_code=rc, whatever the program printed
C9_NonZeroExitReported ==
    \A t \in Threads :
        (Done(t) /\ call[t].exec_chan = "ok" /\ call[t].ran.set /\ call[t].ran.n # 0)
            => (~ call[t].result.success /\ call[t].result.return_code = call[t].ran.n)

\* execute_code has returned its result to the tool, or the tool its own
\* C11: two invocations in the same session and the same hour with the same
\* code, runtime and task id (given in both or omitted in both) return the
\* same task_hash and the same working_directory, and one task directory
\* serves both
C11_SameRequestSameDirectory ==
    \A t \in Threads, u \in Threads :
        (/\ Done(t) /\ Done(u) /\ ViaTool(t) /\ ViaTool(u)
         /\ call[t].ctx.session_id = call[u].ctx.session_id
         /\ call[t].req = call[u].req
         /\ call[t].result.success /\ call[u].result.success
         /\ call[t].result.task_hash.timestamp = call[u].result.task_hash.timestamp)
            => /\ call[t].result.task_hash = call[u].result.task_hash
               /\ call[t].result.working_directory = call[u].result.working_directory

\* a task directory <baseDir>/<session>/<fingerprint>
InSession(d) ==
    /\ d.hash # NoHash
    /\ d.parent # <<>>
    /\ SubSeq(d.parent, 1, Len(d.parent) - 1) = ConfiguredBase

\* C12: once cleanup_old_tasks(H) has completed, every task directory of a
\* session that was last modified more than H hours before is absent, and
\* every task directory modified later is present with its files
C12_CleanupByAge ==
    (sweep.pc = "swept" /\ sweep.chan = "ok") =>
        \A d \in {e \in sweep.before.dirs : InSession(e)} :
            IF clock - sweep.before.mtime[d] > sweep.hours * TicksPerHour
            THEN d \notin fsDirs
            ELSE /\ d \in fsDirs
                 /\ \A f \in sweep.before.files : f.dir = d => f \in fsFiles

\* C13: get_or_create_session(id) for an id that is not registered creates
\* the entry keyed by that id, and every later call with the id returns that
\* entry without adding one: the entries are those of the ids asked for
C13_RegistryKeyedByGivenId ==
    /\ \A b \in DOMAIN bundles :
          /\ bundles[b].requested \in DOMAIN sessions
          /\ bundles[b].session_id = bundles[b].requested
    /\ Cardinality(DOMAIN sessions) = Cardinality({bundles[b].requested : b \in DOMAIN bundles})

\* C14: task_count is the number of code executions of the session: the
\* first task reports task_count = 1, whatever lookups and bundle creations
\* came before it
C14_FirstTaskCountsOne ==
    \A t \in Threads :
        (Done(t) /\ ViaTool(t) /\ started = 1 /\ call[t].result.task_count # NoCount)
            => call[t].result.task_count = 1

\* C15: a call of clear_session on a registered session returns, and the
\* session then has task_count 0 and is still in the registry
C15_ClearReturnsWithZero ==
    \A w \in Workers, x \in {generate_session_id(n) : n \in 1..MaxSessions} :
        (worker[w].op = "clear" /\ worker[w].sid = x)
            ~> (worker[w].op # "clear" /\ x \in DOMAIN sessions /\ sessions[x] = 0)

\* whether no thread is inside a session operation
AllIdle == \A w \in Workers : worker[w].pc = "idle"

\* C16: n concurrent update_activity calls on a session raise its task_count
\* by exactly n, under every interleaving
C16_NoLostIncrement ==
    AllIdle => \A x \in DOMAIN sessions : sessions[x] = updates[x]

C16_Witness ==
    /\ AllIdle
    /\ \E x \in DOMAIN sessions : sessions[x] = 2 /\ updates[x] = 2

\* the timers that wait for their interval to pass
Armed == {k \in DOMAIN timers : timers[k].state = "armed"}

\* C17: any number of constructions of EC2SandboxEnv with one instance id
\* and region, concurrent ones included, yield one object initialized once:
\* the base directory is provisioned once and one timer at most is armed
C17_OneEnvironmentInitializedOnce ==
    /\ Len(envObjects) <= 1
    /\ provisioned <= 1
    /\ Cardinality(Armed) <= 1
    /\ \A b \in Builders, c \in Builders :
          (builder[b].pc = "built" /\ builder[c].pc = "built") => builder[b].obj = builder[c].obj

\* C18: once stop_cleanup_timer() has returned no timer of the environment
\* is armed and no periodic cleanup begins any more, also when a periodic
\* cleanup was executing during the call
C18_StoppedTimerStaysStopped ==
    stopper.pc = "stopped" =>
        /\ \A k \in Armed : timers[k].obj # stopper.obj
        /\ Ticks(timers, stopper.obj) = stopper.ticks

\* the Agents constructed for a session
AgentsOf(session_id) == {a \in DOMAIN agents : agents[a].session = session_id}

\* C19: for a session id at most one Agent is ever constructed and every
\* call of get_or_create_agent_for_session returns that Agent, also when
\* two first calls for the session overlap
C19_OneAgentPerSession ==
    \A sid \in CallerIds :
        /\ Cardinality(AgentsOf(sid)) <= 1
        /\ \A u \in UiThreads :
              (ui[u].pc = "chat" /\ ui[u].sid = sid) => AgentsOf(sid) = {ui[u].ret}

\* C20: switch_environment for a session that has an Agent gives the Agent
\* a new bundle bound to the new environment and leaves the Agent object and
\* its messages as they were; a switch to the environment already in use
\* changes nothing
C20_SwitchKeepsAgentAndMessages ==
    (switched.pc = "switched" /\ switched.sid \in DOMAIN switched.before.user_agents) =>
        LET b == switched.before
            a == b.user_agents[switched.sid]
        IN  IF switched.env = b.session_environments[switched.sid]
            THEN /\ agents = b.agents
                 /\ user_agents = b.user_agents
                 /\ session_environments = b.session_environments
                 /\ bundles = b.bundles
            ELSE switched.env \in EnvNames =>
                 /\ user_agents = b.user_agents
                 /\ DOMAIN agents = DOMAIN b.agents
                 /\ \A x \in DOMAIN agents : x # a => agents[x] = b.agents[x]
                 /\ agents[a].session = b.agents[a].session
                 /\ agents[a].messages = b.agents[a].messages
                 /\ agents[a].tools \in (DOMAIN bundles) \ (DOMAIN b.bundles)
                 /\ bundles[agents[a].tools].env = switched.env
                 /\ session_environments[switched.sid] = switched.env

\* a session with an Agent that has messages was switched to another environment
C20_Witness ==
    /\ switched.pc = "switched"
    /\ switched.outcome = "switched"
    /\ switched.sid \in DOMAIN switched.before.user_agents
    /\ switched.before.agents[switched.before.user_agents[switched.sid]].messages > 0

\* C21: get_session_files with neither a filename nor a task hash returns
\* an error envelope and reads no file content
C21_NoArgumentsIsAnError ==
    (toolCall.pc = "done" /\ toolCall.filename = NoName /\ toolCall.task_hash = NoHashArg) =>
        /\ ~ toolCall.result.success
        /\ toolCall.read = {}

\* C22: get_session_files with a task hash H and no filename returns, when
\* the channel works, the file map of task H only: the files directly in
\* <sessionDir>/H and no file of another task
C22_TaskHashSelectsOneTask ==
    (/\ toolCall.pc = "done"
     /\ toolCall.filename = NoName
     /\ toolCall.task_hash.up = <<>>
     /\ toolCall.task_hash.hash # NoHash
     /\ toolCall.find_chan = "ok"
     /\ toolCall.read_chan = "ok") =>
        LET dir == TaskDir(session_path(toolCall.ctx), toolCall.task_hash.hash)
        IN  /\ toolCall.result.success
            /\ {[task |-> e.task, name |-> e.name] : e \in toolCall.result.data.files}
               = {[task |-> f.dir.hash, name |-> f.name] : f \in {g \in fsFiles : g.dir = dir}}

\* C23: whatever filename and task hash a session passes, every path that
\* get_session_files searches or reads lies under <baseDir>/<session> and
\* crosses no ".." segment
C23_ReadsStayInSession ==
    toolCall.pc = "done" =>
        LET own == Append(ConfiguredBase, bundles[toolCall.bundle].session_id)
        IN  /\ \A r \in toolCall.searched :
                  IsPrefix(own, r.path) /\ \A i \in DOMAIN r.path : r.path[i] # ".."
            /\ \A f \in toolCall.read : f.dir.parent = own

\* C24: no request makes the broker write a file outside <baseDir>: the
\* code file and every seed file are inside a task directory
\* <baseDir>/<sessionId>/<fingerprint>, for create_filesystem true and false
C24_WritesStayInTaskDir ==
    \A f \in fsFiles :
        /\ f.dir.hash # NoHash
        /\ IsPrefix(ConfiguredBase, f.dir.parent)
        /\ Len(f.dir.parent) = Len(ConfiguredBase) + 1

\* the extensions a task source file may have
SourceExts == {<<"p", "y">>, <<"j", "s">>, <<"s", "h">>}

\* C26: on a working channel, a request with an allowed runtime, code
\* within the size limit, no files and no environment variables, whose
\* program exits 0, returns success = true, return_code = 0 and a
\* files_created list that contains the task source file
C26_PlainRunListsSourceFile ==
    \A t \in Threads :
        (/\ Done(t)
         /\ call[t].req.runtime \in allowed_runtimes
         /\ code_size(call[t].req.code) <= MAX_CODE_SIZE
         /\ call[t].req.files = {} /\ call[t].req.env_vars = {}
         /\ call[t].exec_chan = "ok"
         /\ call[t].ran = [set |-> TRUE, n |-> 0])
            => /\ call[t].result.success
               /\ call[t].result.return_code = 0
               /\ \E ext \in SourceExts :
                     CodeFile(ext, call[t].task_hash) \in call[t].result.files_created

\* C27: sanitize_env_var is idempotent on values: sanitizing the value it
\* returned gives that value back unchanged
C27_SanitizeIdempotent ==
    sanitized.pc = "twice" =>
        /\ ~ sanitized.twice.raised
        /\ sanitized.twice.value = sanitized.once.value

\* C28: whenever no invocation of execute_code_in_sandbox is in flight,
\* config.base_sandbox_dir is the configured base directory, however the
\* invocations before ended and overlapped
C28_BaseDirRestoredWhenIdle == Quiet => baseDir = ConfiguredBase

\* whether this step dispatches a purge, from the cleanup tool or from a
\* tick of the timer
PurgeStep ==
    \/ sweep.pc = "idle" /\ sweep'.pc = "swept"
    \/ \E k \in DOMAIN timers : timers[k].state = "running" /\ timers'[k].state = "purged"

\* C29: a purge dispatched while an invocation of execute_code_in_sandbox
\* is in flight searches the configured base directory, not a session
\* directory
C29_PurgeTargetsConfiguredBase ==
    [][(PurgeStep /\ ~ Quiet) => baseDir = ConfiguredBase]_vars

\* the state of the k-th timer, "none" before it is created
TimerState(k) == IF k \in DOMAIN timers THEN timers[k].state ELSE "none"

C31_ProvisioningFailureIsFatal ==
    \A t \in Threads :
        (HasResult(t) /\ call[t].prov_code # 0)
            => /\ ~ call[t].result.success
               /\ call[t].result.return_code = 1
               /\ call[t].sent = 1
               /\ call[t].exec_chan = ""
               /\ ~ call[t].ran.set

\* the provisioning command of a request with seed files returned
\* non-zero and the caller has the result of the except branch
C31_Witness ==
    \E t \in Threads :
        /\ Done(t)
        /\ call[t].req.files # {}
        /\ call[t].prov_code # 0
        /\ call[t].result = ExceptionResult(call[t].task_hash)

\* whether a command line runs the runtime between the start and the end
\* marker and prints the EXIT_CODE line after them
Framed(cmd, runtime) ==
    \E i, j, k, l \in DOMAIN cmd :
        /\ i < j /\ j < k /\ k < l
        /\ cmd[i].op = "echo" /\ cmd[i].arg = StartMarker
        /\ cmd[j].op = "run" /\ cmd[j].arg = runtime
        /\ cmd[k].op = "echo" /\ cmd[k].arg = EndMarker
        /\ cmd[l].op = "echo_rc"

\* C32: for every runtime of the default allow-list the execution command
\* that execute_code dispatches invokes that runtime on the decoded code,
\* between the start and end markers and before the EXIT_CODE line
C32_EveryRuntimeIsFramed ==
    \A t \in Threads :
        (HasResult(t) /\ call[t].req.runtime \in allowed_runtimes /\ call[t].exec_chan # "")
            => Framed(call[t].full_command, call[t].req.runtime)

\* C33: files_created holds exactly the names of the entries of the
\* listing after the last FILES_CREATED marker that are not directories:
\* never ".", ".." or a subdirectory
C33_FilesCreatedAreTheFiles ==
    applied.fn = "parse_file_list" =>
        applied.out = {[name |-> e.name, hash |-> e.hash] :
                          e \in {x \in applied.arg[4].entries : x.type # "d"}}

\* C34: when get_session_files(filename) succeeds, found_in_task names a
\* task directory directly under the session directory of the caller's
\* bundle and the returned file is in that directory; when no file of the
\* session has the name, the tool fails with a message
C34_FoundInTaskOfOwnSession ==
    (/\ toolCall.pc = "done"
     /\ toolCall.tool = "get_session_files"
     /\ toolCall.filename # NoName
     /\ toolCall.task_hash = NoHashArg) =>
        LET own == BundleSessionDir(toolCall.bundle)
            matches == {f \in fsFiles : f.name = toolCall.filename /\ f.dir.hash # NoHash
                                          /\ f.dir.parent = own}
        IN  /\ toolCall.result.success =>
                  /\ TaskDir(own, toolCall.result.data.found_in_task) \in fsDirs
                  /\ toolCall.result.data.full_path \in matches
                  /\ toolCall.result.data.full_path.dir
                        = TaskDir(own, toolCall.result.data.found_in_task)
            /\ matches = {} =>
                  ~ toolCall.result.success /\ toolCall.result.error_message \notin {"", None}

\* C35: is_safe_filename accepts a name only if the name has at most 255
\* characters, all of them letters, digits, ".", "_" or "-", holds no ".."
\* and is not a reserved device name
C35_AcceptsOnlySpecifiedNames ==
    (applied.fn = "is_safe_filename" /\ applied.out) =>
        /\ Len(applied.arg) \in 1..MaxFilenameLen
        /\ \A i \in DOMAIN applied.arg : applied.arg[i] \in FilenameChars
        /\ ~ Contains(applied.arg, <<".", ".">>)
        /\ BeforeFirstDot(Upper(applied.arg)) \notin reserved_names

\* the value with one backslash in front of each dangerous character
RECURSIVE PrefixedOnce(_)
PrefixedOnce(value) ==
    IF value = <<>> THEN <<>>
    ELSE (IF Head(value) \in Range(dangerous_chars) THEN <<"\\", Head(value)>> ELSE <<Head(value)>>)
         \o PrefixedOnce(Tail(value))

\* C36: for a valid name sanitize_env_var returns the value with each of
\* the ten dangerous characters prefixed by exactly one backslash and every
\* other character unchanged and in order; for an invalid name it fails
C36_EachDangerousCharEscapedOnce ==
    sanitized.pc = "once" =>
        IF ValidEnvName(sanitized.key)
        THEN /\ ~ sanitized.once.raised
             /\ sanitized.once.value = PrefixedOnce(sanitized.value)
        ELSE sanitized.once.raised

\* sandbox.py 102: f"export {safe_key}='{safe_value}'"
export_statement(safe_key, safe_value) ==
    <<"e", "x", "p", "o", "r", "t", " ">> \o safe_key \o <<"=", "'">> \o safe_value \o <<"'">>

\* the shell reads a single-quoted string that opens at position i: every
\* character up to the next single quote is literal, the backslash
\* included; the position of the closing quote, 0 if there is none
ClosingQuote(text, i) ==
    LET quotes == {j \in (i + 1)..Len(text) : text[j] = "'"}
    IN  IF quotes = {} THEN 0 ELSE Min(quotes)

\* C37: the statement export K='<sanitized value>' is a single
\* assignment: the quote that closes the string is the last character of
\* the statement, so no character of the value is read as shell syntax
C37_ValueStaysInsideQuotes ==
    (sanitized.pc = "once" /\ ~ sanitized.once.raised) =>
        LET text == export_statement(sanitized.once.key, sanitized.once.value)
            open == Len(sanitized.once.key) + 9
        IN  /\ text[open] = "'"
            /\ ClosingQuote(text, open) = Len(text)

\* C38: get_or_create_session running concurrently with removals of the
\* same id never fails with a missing key
C38_GetOrCreateNeverMissesKey ==
    \A w \in Workers : ~ (worker[w].op = "get_or_create" /\ worker[w].pc = "raised")

\* C39: a thread that has taken the lock of a session inside clear_session
\* gives the lock back, whatever the other threads do
C39_ClearReleasesSessionLock ==
    \A w \in Workers, x \in {generate_session_id(n) : n \in 1..MaxSessions} :
        (worker[w].op = "clear" /\ x \in DOMAIN sessionLock /\ sessionLock[x] = w)
            ~> ~ (x \in DOMAIN sessionLock /\ sessionLock[x] = w)

\* C40: for every configured max_execution_time the waiter polls for at
\* least as many seconds as the timeout given to the channel
C40_WaiterOutlastsChannelTimeout ==
    applied.fn = "_execute_remote_command"
        => applied.out.Delay * applied.out.MaxAttempts >= applied.out.TimeoutSeconds

\* whether a failure envelope says what went wrong
Explained(r) == r.success \/ r.error_message \notin {None, ""}

\* C25: every tool of the bundle hands its caller a result, and every
\* result with success = false carries a non-empty error message or a
\* non-empty stderr
C25_FailuresCarryAMessage ==
    /\ \A t \in Threads :
          pc[t] = "done" /\ call[t].kind = "tool" =>
             Explained(call[t].result) \/ call[t].result.stderr # ""
    /\ toolCall.pc = "done" => Explained(toolCall.result)
    /\ sweep.pc = "swept" => Explained(sweep.result)

\* the program failed without writing to stderr and the execution tool put
\* its fallback text in the error message
C25_Witness ==
    /\ pc["t1"] = "done"
    /\ call["t1"].kind = "tool"
    /\ ~ call["t1"].result.success
    /\ call["t1"].result.stderr = ""
    /\ call["t1"].result.error_message = "text"

\* C10: every result of execute_code and of execute_code_in_sandbox has
\* success = (return_code == 0)
C10_SuccessIffZero ==
    \A t \in Threads :
        HasResult(t) => (call[t].result.success <=> (call[t].result.return_code = 0))

C10_Witness ==
    \E t \in Threads :
        /\ Done(t) /\ ViaTool(t)
        /\ call[t].ran.set /\ call[t].ran.n # 0
        /\ ~ call[t].result.success
        /\ call[t].result.return_code = call[t].ran.n

====
